---------------------------- MODULE Spec2Model ----------------------------
(***************************************************************************)
(* A model of the system-property store (feicong/system_properties):       *)
(*   - the per-entry serial word protocol between the single writer        *)
(*     (SystemProperties::Update) and lock-free readers                    *)
(*     (SystemProperties::ReadMutablePropertyValue), at the granularity of *)
(*     single atomic loads/stores and single byte copies;                  *)
(*   - the futex based SystemProperties::Wait;                             *)
(*   - the prop_area arena and trie (add / find / foreach / remove /       *)
(*     prune_trie);                                                        *)
(*   - the two routers: PropertyInfoArea::GetPropertyInfoIndexes (binary   *)
(*     index) and ContextsSplit (text index).                              *)
(*                                                                         *)
(* Strings are sequences of byte codes, so that strcmp/strncmp/strchr can  *)
(* be modelled as the C library computes them.  Memory is modelled         *)
(* sequentially consistent.                                                *)
(***************************************************************************)
EXTENDS Integers, Sequences, FiniteSets, TLC

VARIABLES
  \* ---- shared memory of the serial protocol (one area, its entries) ----
  estate,        \* entry -> "free" | "live" | "dead" (prop_info allocated / wiped)
  serial,        \* entry -> prop_info::serial (32-bit word)
  value,         \* entry -> prop_info::value, a byte buffer indexed from 0
  dirty_backup,  \* prop_area::dirty_backup_area(), one per area
  gserial,       \* serial_pa->serial(), the global serial
  \* ---- the writer thread (Update / Add / Delete) ----
  wpc, wpi, wvalue, wserial, wi,
  \* ---- a reader thread (ReadMutablePropertyValue) ----
  rpc, rpi, rserial, rnew, rbuf, ri, rprev,
  \* ---- waiter threads (Wait) ----
  qpc, qpi, qold, qnew, qtimed,
  \* ---- history: the complete values every entry has held ----
  hist,
  \* ---- routing through the binary index (ContextsSerialized) ----
  info_area,     \* property_info_area_file_: the mapped index
  route_cfg,     \* the entries the index was built from
  route_name,    \* the name being routed
  route_result,  \* what GetPropertyInfoIndexes stored in *context_index
  \* ---- routing through the text contexts (ContextsSplit) ----
  split_file,    \* the lines of the property_contexts file: <<prefix, context>>
  split_pc,      \* "new" before InitializePropertiesFromFile, "loaded" after
  prefixes_,     \* the prefix list, head first: [prefix, prefix_len, context]
  contexts_,     \* the context list, head first: context names
  split_name,    \* the name being routed
  split_result,  \* the context GetPropAreaForName chose, or NoContext
  \* ---- the property areas (prop_area) behind the contexts ----
  areas,         \* context index -> the shared area [bytes_used_, bt, info, blob]
  pa_,           \* process -> context index -> ContextNode::pa_ is mapped
  no_access_,    \* process -> context index -> ContextNode::no_access_
  readable,      \* context index -> the client may read the area's file
  initialized_,  \* process -> SystemProperties::initialized_
  rw_,           \* process -> Contexts::rw_
  writable,      \* context index -> the client may open the area's file O_RDWR
  serial_access, \* how the client may open properties_serial: "none", "ro", "rw"
  stored,        \* history: the names added and not deleted since
  added,         \* history: name -> the last successful add not yet followed
                 \* by an update or delete of the name
  denied,        \* history: process -> context index -> a foreach of the process
                 \* has found the context unreadable since its last reset_access
  exhausted,     \* history: [area, namelen, valuelen] of the adds of a new name
                 \* that failed for want of room
  last,          \* the last call made through SystemProperties and its outcome
  \* ---- reader threads of the client opening one context node ----
  opc,           \* thread -> where it is in CheckAccessAndOpen / Open
  lock_,         \* ContextNode::lock_: the thread holding it, or NoThread
  mapping,       \* the pointer in ContextNode::pa_: 0 for nullptr, else the
                 \* number of the mapping it points to
  maps,          \* history: the mappings map_prop_area has made of the file
  used,          \* thread -> the pa_ CheckAccessAndOpen returned, NotReturned before
  \* ---- the client side of the property service (__system_property_set) ----
  g_propservice_protocol_version,  \* 0 until detected, then 1 or 2
  version_prop,  \* what __system_property_get gives for
                 \* ro.property_service.version: its value, or NoProp
  \* ---- prop_area::add in the writer beside prop_area::find in a reader ----
  adder,         \* the writer's position in traverse_trie / find_property
  finder,        \* the reader's position in traverse_trie / find_property
  pending        \* the writer's plain stores a reader may not see yet

protoVars  == <<estate, serial, value, dirty_backup, gserial, hist>>
writerVars == <<wpc, wpi, wvalue, wserial, wi>>
readerVars == <<rpc, rpi, rserial, rnew, rbuf, ri, rprev>>
waiterVars == <<qpc, qpi, qold, qnew, qtimed>>

routeVars  == <<info_area, route_cfg, route_name, route_result>>
splitVars  == <<split_file, split_pc, prefixes_, contexts_, split_name, split_result>>
areaVars   == <<areas, pa_, no_access_, readable, initialized_, rw_, writable, serial_access,
               stored, added, denied, exhausted, last>>
openVars   == <<opc, lock_, mapping, maps, used>>
setVars    == <<g_propservice_protocol_version, version_prop>>
trieVars   == <<adder, finder, pending>>

\* What the steps of the update / read / wait protocol never touch.
storeVars  == <<routeVars, splitVars, areaVars, openVars, setVars, trieVars>>

vars == <<protoVars, writerVars, readerVars, waiterVars, storeVars>>

(***************************************************************************)
(* Bounds                                                                  *)
(***************************************************************************)
\* Cap on the number of writer operations (the global serial counts them).
MaxOps == 2

(***************************************************************************)
(* Words and byte strings                                                  *)
(***************************************************************************)
Pow2(n) == 2 ^ n

\* SERIAL_DIRTY(serial)  ((serial)&1)
SERIAL_DIRTY(s) == s % 2

\* SERIAL_VALUE_LEN(serial)  ((serial) >> 24)
SERIAL_VALUE_LEN(s) == s \div Pow2(24)

Max(S) == CHOOSE x \in S : \A y \in S : y <= x

\* The entries of the area and the values the writer stores in them.
Entries == {"e1", "e2"}
Values  == {<<97, 97>>, <<98, 98>>, <<99>>}

\* Indices of the bytes of a value buffer that the bounded values can touch
\* (the last one holds the NUL of a longest value).
BufIdx == 0 .. Max({Len(v) : v \in Values})

\* A buffer holding the C string v (zero filled behind it, as the mapping is).
BufOf(v) == [i \in BufIdx |-> IF i < Len(v) THEN v[i + 1] ELSE 0]

\* A caller's buffer before anything was copied into it: no byte is a NUL.
Unset == -1
JunkBuf == [i \in BufIdx |-> Unset]

\* The C string a buffer holds: the bytes before the first NUL.
NulPos(buf) ==
  IF \E i \in DOMAIN buf : buf[i] = 0
    THEN CHOOSE i \in DOMAIN buf : buf[i] = 0 /\ \A j \in DOMAIN buf : j < i => buf[j] # 0
    ELSE Max(DOMAIN buf) + 1
CStr(buf) == [i \in 1 .. NulPos(buf) |-> buf[i - 1]]

(***************************************************************************)
(* prop_info: construction of a short entry                                *)
(***************************************************************************)
\* atomic_init(&this->serial, valuelen << 24)
InitialSerial(valuelen) == valuelen * Pow2(24)

(***************************************************************************)
(* SystemProperties::Update, one atomic access or one byte copy per step   *)
(***************************************************************************)
\* Faulty variant: the writer publishes no dirty bit before it overwrites the value.
DirtySerial_NotSet(s) == s

\* serial |= 1
DirtySerial(s) == IF s % 2 = 0 THEN s + 1 ELSE s

\* Faulty variant: the final store clears the dirty bit without advancing the sequence.
CleanSerial_NoAdvance(len, s) == len * Pow2(24) + ((s - 1) % Pow2(24))

\* Faulty variant: the final store does not mask the sequence to 24 bits.
CleanSerial_NoMask(len, s) == len * Pow2(24) + (s % Pow2(24)) + 1

\* (len << 24) | ((serial + 1) & 0xffffff)
CleanSerial(len, s) == len * Pow2(24) + ((s + 1) % Pow2(24))

\* The sequence number and dirty bit of a serial: its low 24 bits.
SerialLow24(s) == s % Pow2(24)

\* __futex_wake(addr, INT32_MAX): every thread asleep on addr becomes runnable.
FutexWake(addr) ==
  qpc' = [w \in DOMAIN qpc |-> IF qpc[w] = "asleep" /\ qpi[w] = addr THEN "load" ELSE qpc[w]]

\* The entry point up to the load of the entry's serial: the value fits, the
\* process is initialised and read-write, and the entry is one the writer holds.
Update_LoadSerial(pi, v) ==
  /\ wpc = "idle"
  /\ estate[pi] = "live"
  /\ Len(v) <= Max(BufIdx)
  /\ gserial < MaxOps
  /\ wpc' = "backup"
  /\ wpi' = pi
  /\ wvalue' = v
  /\ wserial' = serial[pi]
  /\ wi' = 0
  /\ UNCHANGED <<storeVars, protoVars, readerVars, waiterVars>>

\* Faulty variant: the backup copies old_len bytes, without the NUL.
Update_BackupByte_NoNul ==
  /\ wpc = "backup"
  /\ dirty_backup' = [dirty_backup EXCEPT ![wi] =
                        IF wi < SERIAL_VALUE_LEN(wserial) THEN value[wpi][wi] ELSE @]
  /\ IF wi = SERIAL_VALUE_LEN(wserial)
       THEN wpc' = "dirty" /\ wi' = 0
       ELSE wpc' = wpc /\ wi' = wi + 1
  /\ UNCHANGED <<storeVars, estate, serial, value, gserial, hist, wpi, wvalue, wserial,
                 readerVars, waiterVars>>

\* memcpy(pa->dirty_backup_area(), pi->value, old_len + 1), byte wi
Update_BackupByte ==
  /\ wpc = "backup"
  /\ dirty_backup' = [dirty_backup EXCEPT ![wi] = value[wpi][wi]]
  /\ IF wi = SERIAL_VALUE_LEN(wserial)
       THEN wpc' = "dirty" /\ wi' = 0
       ELSE wpc' = wpc /\ wi' = wi + 1
  /\ UNCHANGED <<storeVars, estate, serial, value, gserial, hist, wpi, wvalue, wserial,
                 readerVars, waiterVars>>

\* serial |= 1; atomic_store_explicit(&pi->serial, serial, relaxed)
Update_StoreDirty ==
  /\ wpc = "dirty"
  /\ wserial' = DirtySerial(wserial)
  /\ serial' = [serial EXCEPT ![wpi] = DirtySerial(wserial)]
  /\ wpc' = "copy"
  /\ UNCHANGED <<storeVars, estate, value, dirty_backup, gserial, hist, wpi, wvalue, wi,
                 readerVars, waiterVars>>

\* strlcpy(pi->value, value, len + 1), byte wi (the NUL is byte len)
Update_CopyByte ==
  /\ wpc = "copy"
  /\ value' = [value EXCEPT ![wpi][wi] =
                 IF wi < Len(wvalue) THEN wvalue[wi + 1] ELSE 0]
  /\ IF wi = Len(wvalue)
       THEN wpc' = "clean" /\ wi' = 0
       ELSE wpc' = wpc /\ wi' = wi + 1
  /\ UNCHANGED <<storeVars, estate, serial, dirty_backup, gserial, hist, wpi, wvalue, wserial,
                 readerVars, waiterVars>>

\* atomic_store_explicit(&pi->serial, (len << 24) | ((serial + 1) & 0xffffff))
Update_StoreClean ==
  /\ wpc = "clean"
  /\ serial' = [serial EXCEPT ![wpi] = CleanSerial(Len(wvalue), wserial)]
  /\ hist' = [hist EXCEPT ![wpi] = @ \cup {wvalue}]
  /\ wpc' = "wake"
  /\ UNCHANGED <<storeVars, estate, value, dirty_backup, gserial, wpi, wvalue, wserial, wi,
                 readerVars, waiterVars>>

\* Faulty variant: the update ends without waking the threads asleep on the entry.
Update_WakeEntry_Missing ==
  /\ wpc = "wake"
  /\ wpc' = "gserial"
  /\ UNCHANGED <<storeVars, protoVars, wpi, wvalue, wserial, wi, readerVars, waiterVars>>

\* __futex_wake(&pi->serial, INT32_MAX)
Update_WakeEntry ==
  /\ wpc = "wake"
  /\ FutexWake(wpi)
  /\ wpc' = "gserial"
  /\ UNCHANGED <<storeVars, protoVars, wpi, wvalue, wserial, wi, readerVars,
                 qpi, qold, qnew, qtimed>>

\* load(serial_pa->serial()) + 1.  The word is 32 bits wide; the bounded runs
\* stay far below its wrap.
NextGlobalSerial(g) == g + 1

\* Faulty variant: the store of the global serial may overtake the final
\* store of the entry's serial, which is then lost.
StoreGlobalSerial_Early ==
  /\ wpc \in {"clean", "gserial"}
  /\ gserial' = NextGlobalSerial(gserial)
  /\ wpc' = "gwake"
  /\ UNCHANGED <<storeVars, estate, serial, value, dirty_backup, hist, wpi, wvalue, wserial, wi,
                 readerVars, waiterVars>>

\* atomic_store_explicit(serial_pa->serial(), load(serial_pa->serial()) + 1, release)
\* (the tail shared by Update, Add and Delete)
StoreGlobalSerial ==
  /\ wpc = "gserial"
  /\ gserial' = NextGlobalSerial(gserial)
  /\ wpc' = "gwake"
  /\ UNCHANGED <<storeVars, estate, serial, value, dirty_backup, hist, wpi, wvalue, wserial, wi,
                 readerVars, waiterVars>>

\* __futex_wake(serial_pa->serial(), INT32_MAX); return 0
WakeGlobalSerial ==
  /\ wpc = "gwake"
  /\ FutexWake("global")
  /\ wpc' = "idle"
  /\ UNCHANGED <<storeVars, protoVars, wpi, wvalue, wserial, wi, readerVars,
                 qpi, qold, qnew, qtimed>>

(***************************************************************************)
(* SystemProperties::ReadMutablePropertyValue                              *)
(***************************************************************************)
\* uint32_t new_serial = load_const_atomic(&pi->serial, acquire);
\* serial = new_serial; len = SERIAL_VALUE_LEN(serial)
Read_LoadSerial(pi) ==
  /\ rpc = "idle"
  /\ estate[pi] = "live"
  /\ rpi' = pi
  /\ rserial' = serial[pi]
  /\ rnew' = serial[pi]
  /\ rbuf' = JunkBuf
  /\ ri' = 0
  /\ rpc' = "copy"
  /\ UNCHANGED <<storeVars, protoVars, writerVars, waiterVars, rprev>>

\* The byte the reader copies: from the backup area when the serial it loaded is
\* dirty, from the entry's value otherwise.
ReadSourceByte(s, pi, i) == IF SERIAL_DIRTY(s) = 1 THEN dirty_backup[i] ELSE value[pi][i]

\* memcpy(value, <source>, len + 1), byte ri
Read_CopyByte ==
  /\ rpc = "copy"
  /\ rbuf' = [rbuf EXCEPT ![ri] = ReadSourceByte(rserial, rpi, ri)]
  /\ IF ri = SERIAL_VALUE_LEN(rserial)
       THEN rpc' = "recheck" /\ ri' = 0
       ELSE rpc' = rpc /\ ri' = ri + 1
  /\ UNCHANGED <<storeVars, protoVars, writerVars, waiterVars, rpi, rserial, rnew, rprev>>

\* Faulty variant: the loop is left only on a clean serial.
ReadSerialStable_CleanOnly(s, new) == s = new /\ SERIAL_DIRTY(s) = 0

\* The loop's exit test on the serial loaded after the copy.
ReadSerialStable(s, new) == s = new

\* new_serial = load_const_atomic(&pi->serial, relaxed);
\* if (serial == new_serial) break;  else serial = new_serial and loop
Read_Recheck ==
  /\ rpc = "recheck"
  /\ rnew' = serial[rpi]
  /\ IF ReadSerialStable(rserial, serial[rpi])
       THEN rpc' = "done" /\ UNCHANGED rserial
       ELSE rpc' = "copy" /\ rserial' = serial[rpi]
  /\ UNCHANGED <<storeVars, protoVars, writerVars, waiterVars, rpi, rbuf, ri, rprev>>

\* return serial: the caller has value (rbuf) and the serial; the reader
\* remembers the serial it was given for this entry.
Read_Return ==
  /\ rpc = "done"
  /\ rprev' = [rprev EXCEPT ![rpi] = rserial]
  /\ rpc' = "idle"
  /\ UNCHANGED <<storeVars, protoVars, writerVars, waiterVars, rpi, rserial, rnew, rbuf, ri>>

(***************************************************************************)
(* Specification of the reader/writer protocol: every entry was added with *)
(* some value, the writer runs updates, the reader reads.                  *)
(***************************************************************************)
Waiters == {"w1"}

NoWaiters ==
  /\ qpc = [w \in Waiters |-> "idle"]
  /\ qpi = [w \in Waiters |-> "global"]
  /\ qold = [w \in Waiters |-> 0]
  /\ qnew = [w \in Waiters |-> 0]
  /\ qtimed = [w \in Waiters |-> FALSE]

WriterIdle ==
  /\ wpc = "idle"
  /\ wpi = "e1"
  /\ wvalue = <<>>
  /\ wserial = 0
  /\ wi = 0

ReaderIdle ==
  /\ rpc = "idle"
  /\ rpi = "e1"
  /\ rserial = 0
  /\ rnew = 0
  /\ rbuf = JunkBuf
  /\ ri = 0
  /\ rprev = [e \in Entries |-> -1]

\* The value each entry was added with.
AddedValue == [e \in Entries |-> IF e = "e1" THEN <<97, 97>> ELSE <<99>>]

\* The routing and storage layers at rest.
RouteIdle ==
  /\ info_area = <<>>
  /\ route_cfg = <<>>
  /\ route_name = <<>>
  /\ route_result = [done |-> FALSE, index |-> -1]

SplitIdle ==
  /\ split_file = <<>>
  /\ split_pc = "new"
  /\ prefixes_ = <<>>
  /\ contexts_ = <<>>
  /\ split_name = <<>>
  /\ split_result = [done |-> FALSE, context |-> ""]

AreaIdle ==
  /\ areas = <<>>
  /\ pa_ = <<>>
  /\ no_access_ = <<>>
  /\ readable = <<>>
  /\ initialized_ = <<>>
  /\ rw_ = <<>>
  /\ writable = <<>>
  /\ serial_access = "none"
  /\ stored = {}
  /\ added = <<>>
  /\ denied = <<>>
  /\ exhausted = {}
  /\ last = [op |-> "none"]

NoThread == 0
NotReturned == -1

NoProp == <<-1>>

SetIdle ==
  /\ g_propservice_protocol_version = 0
  /\ version_prop = NoProp

TrieIdle ==
  /\ adder = <<>>
  /\ finder = <<>>
  /\ pending = <<>>

OpenIdle ==
  /\ opc = <<>>
  /\ lock_ = NoThread
  /\ mapping = 0
  /\ maps = 0
  /\ used = <<>>

InitRW ==
  /\ RouteIdle
  /\ SplitIdle
  /\ OpenIdle
  /\ SetIdle
  /\ TrieIdle
  /\ AreaIdle
  /\ serial = [e \in Entries |-> InitialSerial(Len(AddedValue[e]))]
  /\ value = [e \in Entries |-> BufOf(AddedValue[e])]
  /\ hist = [e \in Entries |-> {AddedValue[e]}]
  /\ estate = [e \in Entries |-> "live"]
  /\ dirty_backup = BufOf(<<>>)
  /\ gserial = 0
  /\ WriterIdle
  /\ ReaderIdle
  /\ NoWaiters

NextRW ==
  \/ \E pi \in Entries, v \in Values : Update_LoadSerial(pi, v)
  \/ Update_BackupByte
  \/ Update_StoreDirty
  \/ Update_CopyByte
  \/ Update_StoreClean
  \/ Update_WakeEntry
  \/ StoreGlobalSerial
  \/ WakeGlobalSerial
  \/ \E pi \in Entries : Read_LoadSerial(pi)
  \/ Read_CopyByte
  \/ Read_Recheck
  \/ Read_Return

SpecRW == InitRW /\ [][NextRW]_vars

\* C1: every value a read returns is one of the complete values the entry has
\* held so far (given at add or by a completed update), with the length the
\* returned serial reports; it is never a byte mixture of two values.
C1_ReadReturnsCompleteValue ==
  rpc = "done" =>
    /\ CStr(rbuf) \in hist[rpi]
    /\ Len(CStr(rbuf)) = SERIAL_VALUE_LEN(rserial)

\* C1 witness: a read that overlapped an update returns with a dirty serial,
\* its value copied from the backup area while the writer is overwriting the
\* entry's value.
C1_Witness ==
  /\ rpc = "done"
  /\ SERIAL_DIRTY(rserial) = 1
  /\ wpc = "copy"
  /\ wpi = rpi

\* C2 (as stated): within one reader, the 32-bit serial a read returns is not
\* smaller than the serial its previous read of the same entry returned.
C2_SerialMonotone32 ==
  rpc = "done" /\ rprev[rpi] # -1 => rserial >= rprev[rpi]

\* C2 (amended): within one reader, the low 24 bits of the returned serial
\* (sequence number and dirty bit, the length byte masked off) never decrease
\* from one read of an entry to the next.
C2_SequenceMonotone ==
  rpc = "done" /\ rprev[rpi] # -1 => SerialLow24(rserial) >= SerialLow24(rprev[rpi])

\* C2 witness: a second read of an entry returns a serial whose sequence number
\* advanced while its 32-bit value went down (the new value is shorter).
C2_Witness ==
  /\ rpc = "done"
  /\ rprev[rpi] # -1
  /\ SerialLow24(rserial) > SerialLow24(rprev[rpi])
  /\ rserial < rprev[rpi]

(***************************************************************************)
(* SystemProperties::Add and SystemProperties::Delete as the waiters see   *)
(* them: the area operation, then the global serial store and wake.        *)
(***************************************************************************)
\* pa->add(name, namelen, value, valuelen) succeeded: a name not yet stored gets
\* a freshly constructed prop_info, a stored name is left as it is.
Add_Area(pi, v) ==
  /\ wpc = "idle"
  /\ gserial < MaxOps
  /\ estate[pi] \in {"free", "live"}
  /\ IF estate[pi] = "free"
       THEN /\ estate' = [estate EXCEPT ![pi] = "live"]
            /\ serial' = [serial EXCEPT ![pi] = InitialSerial(Len(v))]
            /\ value' = [value EXCEPT ![pi] = BufOf(v)]
            /\ hist' = [hist EXCEPT ![pi] = {v}]
       ELSE UNCHANGED <<estate, serial, value, hist>>
  /\ wpc' = "gserial"
  /\ wpi' = pi
  /\ UNCHANGED <<storeVars, dirty_backup, gserial, wvalue, wserial, wi, readerVars, waiterVars>>

\* pa->remove(name, prune) succeeded: memset(prop, 0, sizeof(*prop)) wipes the
\* serial word and the value of the entry.
Delete_Area(pi) ==
  /\ wpc = "idle"
  /\ gserial < MaxOps
  /\ estate[pi] = "live"
  /\ estate' = [estate EXCEPT ![pi] = "dead"]
  /\ serial' = [serial EXCEPT ![pi] = 0]
  /\ value' = [value EXCEPT ![pi] = BufOf(<<>>)]
  /\ wpc' = "gserial"
  /\ wpi' = pi
  /\ UNCHANGED <<storeVars, dirty_backup, gserial, hist, wvalue, wserial, wi, readerVars, waiterVars>>

(***************************************************************************)
(* SystemProperties::Wait                                                  *)
(***************************************************************************)
\* The word a waiter waits on: the global serial (pi == nullptr) or pi->serial.
SerialAt(addr) == IF addr = "global" THEN gserial ELSE serial[addr]

\* The caller passes the serial it saw last; serial_ptr is chosen from pi.
Wait_Call(w, addr, timed) ==
  /\ qpc[w] = "idle"
  /\ addr \in Entries => estate[addr] = "live"
  /\ qpc' = [qpc EXCEPT ![w] = "futex"]
  /\ qpi' = [qpi EXCEPT ![w] = addr]
  /\ qold' = [qold EXCEPT ![w] = SerialAt(addr)]
  /\ qtimed' = [qtimed EXCEPT ![w] = timed]
  /\ UNCHANGED <<storeVars, protoVars, writerVars, readerVars, qnew>>

\* __futex_wait(serial_ptr, old_serial, relative_timeout): the kernel compares
\* the word with old_serial and puts the thread to sleep in one atomic step; a
\* word that already differs makes it return at once.
Wait_FutexWait(w) ==
  /\ qpc[w] = "futex"
  /\ qpc' = [qpc EXCEPT ![w] = IF SerialAt(qpi[w]) = qold[w] THEN "asleep" ELSE "load"]
  /\ UNCHANGED <<storeVars, protoVars, writerVars, readerVars, qpi, qold, qnew, qtimed>>

\* __futex_wait returns without a wake (a signal): rc != -ETIMEDOUT.
Wait_Interrupt(w) ==
  /\ qpc[w] = "asleep"
  /\ qpc' = [qpc EXCEPT ![w] = "load"]
  /\ UNCHANGED <<storeVars, protoVars, writerVars, readerVars, qpi, qold, qnew, qtimed>>

\* rc == -ETIMEDOUT: return false
Wait_Timeout(w) ==
  /\ qpc[w] = "asleep"
  /\ qtimed[w]
  /\ qpc' = [qpc EXCEPT ![w] = "timedout"]
  /\ UNCHANGED <<storeVars, protoVars, writerVars, readerVars, qpi, qold, qnew, qtimed>>

\* Faulty variant: the loop gives up after the first return of __futex_wait.
WaitAgain_Never(new_serial, old_serial) == FALSE

\* } while (new_serial == old_serial);
WaitAgain(new_serial, old_serial) == new_serial = old_serial

\* new_serial = load_const_atomic(serial_ptr, acquire); loop or
\* *new_serial_ptr = new_serial; return true
Wait_LoadSerial(w) ==
  /\ qpc[w] = "load"
  /\ qnew' = [qnew EXCEPT ![w] = SerialAt(qpi[w])]
  /\ qpc' = [qpc EXCEPT ![w] =
               IF WaitAgain(SerialAt(qpi[w]), qold[w]) THEN "futex" ELSE "returned"]
  /\ UNCHANGED <<storeVars, protoVars, writerVars, readerVars, qpi, qold, qtimed>>

\* The caller takes the result and may wait again.
Wait_Return(w) ==
  /\ qpc[w] \in {"returned", "timedout"}
  /\ qpc' = [qpc EXCEPT ![w] = "idle"]
  /\ UNCHANGED <<storeVars, protoVars, writerVars, readerVars, qpi, qold, qnew, qtimed>>

(***************************************************************************)
(* Specification of Wait against the writer's Update, Add and Delete.      *)
(***************************************************************************)
InitWait ==
  /\ RouteIdle
  /\ SplitIdle
  /\ OpenIdle
  /\ SetIdle
  /\ TrieIdle
  /\ AreaIdle
  /\ estate = [e \in Entries |-> IF e = "e1" THEN "live" ELSE "free"]
  /\ serial = [e \in Entries |-> IF e = "e1" THEN InitialSerial(Len(AddedValue[e])) ELSE 0]
  /\ value = [e \in Entries |-> IF e = "e1" THEN BufOf(AddedValue[e]) ELSE BufOf(<<>>)]
  /\ hist = [e \in Entries |-> IF e = "e1" THEN {AddedValue[e]} ELSE {}]
  /\ dirty_backup = BufOf(<<>>)
  /\ gserial = 0
  /\ WriterIdle
  /\ ReaderIdle
  /\ NoWaiters

NextWait ==
  \/ \E pi \in Entries : Update_LoadSerial(pi, <<99>>)
  \/ Update_BackupByte
  \/ Update_StoreDirty
  \/ Update_CopyByte
  \/ Update_StoreClean
  \/ Update_WakeEntry
  \/ \E pi \in Entries : Add_Area(pi, <<98, 98>>)
  \/ \E pi \in Entries : Delete_Area(pi)
  \/ StoreGlobalSerial
  \/ WakeGlobalSerial
  \/ \E w \in Waiters, addr \in Entries \cup {"global"}, timed \in BOOLEAN :
       Wait_Call(w, addr, timed)
  \/ \E w \in Waiters : Wait_FutexWait(w)
  \/ \E w \in Waiters : Wait_Interrupt(w)
  \/ \E w \in Waiters : Wait_Timeout(w)
  \/ \E w \in Waiters : Wait_LoadSerial(w)
  \/ \E w \in Waiters : Wait_Return(w)

\* A runnable waiter gets to run: its futex call and its load of the serial are
\* taken eventually.  Nothing is assumed of the writer, of signals or of timers.
WaitFairness ==
  \A w \in Waiters : WF_vars(Wait_FutexWait(w)) /\ WF_vars(Wait_LoadSerial(w))

SpecWait == InitWait /\ [][NextWait]_vars /\ WaitFairness

InWait == {"futex", "asleep", "load"}

\* The writer is between the first serial store of an update of entry e and
\* the futex wake that ends it.
UpdateInFlight(e) == wpi = e /\ wpc \in {"copy", "clean", "wake"}

\* C4: a thread waiting (without timeout) on an entry whose serial differs from
\* old_serial once the writer's update of that entry has done its wake
\* eventually returns, with a serial different from old_serial (unless the
\* entry is deleted meanwhile): no wake-up is lost.
C4_EntryWaitReturns ==
  \A w \in Waiters : \A e \in Entries :
    (/\ qpc[w] \in InWait /\ qpi[w] = e /\ ~qtimed[w]
     /\ estate[e] = "live" /\ serial[e] # qold[w] /\ ~UpdateInFlight(e))
    ~> ((qpc[w] = "returned" /\ qnew[w] # qold[w]) \/ estate[e] = "dead")

\* C4 witness: a waiter that slept on an entry has returned with the serial of
\* a completed update.
C4_Witness ==
  \E w \in Waiters :
    /\ qpc[w] = "returned" /\ qpi[w] \in Entries
    /\ qnew[w] # qold[w]
    /\ SERIAL_DIRTY(qnew[w]) = 0
    /\ SerialLow24(qnew[w]) > SerialLow24(qold[w])

\* C5: a thread waiting (without timeout) on the global serial eventually
\* returns with a serial different from old_serial once an add, update or
\* delete has stored the global serial and done its wake; it returns a serial
\* only if the global serial moved away from old_serial, and otherwise leaves
\* only through the timeout it was given.
C5_GlobalWaitReturns ==
  /\ \A w \in Waiters :
       (/\ qpc[w] \in InWait /\ qpi[w] = "global" /\ ~qtimed[w]
        /\ gserial # qold[w] /\ wpc # "gwake")
       ~> (qpc[w] = "returned" /\ qnew[w] # qold[w])
  /\ [](\A w \in Waiters :
          /\ qpc[w] = "returned" => qnew[w] # qold[w]
          /\ qpc[w] = "timedout" => qtimed[w])

\* C5 witness: a waiter on the global serial has returned after a delete.
C5_Witness ==
  \E w \in Waiters :
    /\ qpc[w] = "returned" /\ qpi[w] = "global"
    /\ qnew[w] > qold[w]
    /\ \E e \in Entries : estate[e] = "dead"


(***************************************************************************)
(* C strings                                                               *)
(***************************************************************************)
\* Byte i (from 0) of the C string s: its terminating NUL behind the last one.
CharAt(s, i) == IF i < Len(s) THEN s[i + 1] ELSE 0

Min(S) == CHOOSE x \in S : \A y \in S : x <= y

\* strncmp(a, b, n): the difference at the first byte that differs, comparing
\* at most n bytes and nothing behind a NUL.
Strncmp(a, b, n) ==
  LET stop == {i \in 0 .. n - 1 : CharAt(a, i) # CharAt(b, i) \/ CharAt(a, i) = 0}
  IN  IF stop = {} THEN 0 ELSE CharAt(a, Min(stop)) - CharAt(b, Min(stop))

\* strcmp(a, b)
Strcmp(a, b) == Strncmp(a, b, Max({Len(a), Len(b)}) + 1)

\* strchr(s, c) as an index from 0, or NoPos when c does not occur.
NoPos == -1
Strchr(s, c) ==
  IF \E i \in 1 .. Len(s) : s[i] = c
    THEN Min({i \in 1 .. Len(s) : s[i] = c}) - 1
    ELSE NoPos

\* The string behind the first n bytes of s (pointer arithmetic s + n).
Skip(s, n) == SubSeq(s, n + 1, Len(s))

\* The first n bytes of s.
Take(s, n) == SubSeq(s, 1, n)

DOT  == 46
STAR == 42

(***************************************************************************)
(* The binary index (PropertyInfoArea).  A trie node is named by the path  *)
(* of segments leading to it; info_area maps every node to                 *)
(*   [name, context_index, type_index, children, prefixes, exact_matches]  *)
(* with children a sorted sequence of nodes and prefixes / exact_matches   *)
(* sequences of [name, namelen, context_index, type_index].                *)
(***************************************************************************)
\* ~0u, the "no index" sentinel
NoIndex == -1

RootNode == <<>>

\* The template Find(array_length, f): binary search; f[i] is f(search) for
\* the 0-based array index i.  The result is an index or -1.
RECURSIVE BinarySearch(_, _, _)
BinarySearch(bottom, top, f) ==
  IF top < bottom THEN -1
  ELSE LET search == (top + bottom) \div 2
           cmp == f[search]
       IN  IF cmp = 0 THEN search
           ELSE IF cmp < 0 THEN BinarySearch(search + 1, top, f)
           ELSE BinarySearch(bottom, search - 1, f)

\* The comparison TrieNode::FindChildForString hands to Find.
ChildCmp(child_name, name, namelen) ==
  LET cmp == Strncmp(child_name, name, namelen)
  IN  IF cmp = 0 /\ CharAt(child_name, namelen) # 0 THEN 1 ELSE cmp

\* TrieNode::FindChildForString: whether a child was found, and the child.
FindChildForString(area, node, name, namelen) ==
  LET kids == area[node].children
      node_index == BinarySearch(0, Len(kids) - 1,
                       [i \in 0 .. Len(kids) - 1 |->
                          ChildCmp(area[kids[i + 1]].name, name, namelen)])
  IN  IF node_index = -1 THEN [found |-> FALSE, child |-> node]
      ELSE [found |-> TRUE, child |-> kids[node_index + 1]]

\* PropertyInfoArea::CheckPrefixMatch: the first prefix of the node that
\* matches remaining_name updates the indexes it carries and ends the search.
RECURSIVE CheckPrefixFrom(_, _, _, _)
CheckPrefixFrom(i, remaining_name, trie_node, idx) ==
  IF i > Len(trie_node.prefixes) THEN idx
  ELSE LET p == trie_node.prefixes[i] IN
       IF p.namelen > Len(remaining_name)
         THEN CheckPrefixFrom(i + 1, remaining_name, trie_node, idx)
       ELSE IF Strncmp(p.name, remaining_name, p.namelen) = 0
         THEN [context |-> IF p.context_index # NoIndex THEN p.context_index ELSE idx.context,
               type    |-> IF p.type_index # NoIndex THEN p.type_index ELSE idx.type]
       ELSE CheckPrefixFrom(i + 1, remaining_name, trie_node, idx)

CheckPrefixMatch(remaining_name, trie_node, idx) ==
  CheckPrefixFrom(1, remaining_name, trie_node, idx)

\* The tail of GetPropertyInfoIndexes: exact matches first, then the prefixes
\* that are not delimited by a dot.
\* A lookup that skips the exact matches (what C9 must tell apart).
ExactMatchIndex_Skipped(trie_node, remaining_name) == 0

ExactMatchIndex(trie_node, remaining_name) ==
  LET hits == {i \in 1 .. Len(trie_node.exact_matches) :
                 Strcmp(trie_node.exact_matches[i].name, remaining_name) = 0}
  IN  IF hits = {} THEN 0 ELSE Min(hits)

LeafIndexes(trie_node, remaining_name, idx) ==
  LET i == ExactMatchIndex(trie_node, remaining_name) IN
  IF i # 0
    THEN LET e == trie_node.exact_matches[i] IN
         [context |-> IF e.context_index # NoIndex THEN e.context_index ELSE idx.context,
          type    |-> IF e.type_index # NoIndex THEN e.type_index ELSE idx.type]
    ELSE CheckPrefixMatch(remaining_name, trie_node, idx)

\* The loop of GetPropertyInfoIndexes at trie_node with remaining_name left.
RECURSIVE WalkIndex(_, _, _, _)
WalkIndex(area, node, remaining_name, idx) ==
  LET trie_node == area[node]
      sep == Strchr(remaining_name, DOT)
      own == [context |-> IF trie_node.context_index # NoIndex
                            THEN trie_node.context_index ELSE idx.context,
              type    |-> IF trie_node.type_index # NoIndex
                            THEN trie_node.type_index ELSE idx.type]
      now == CheckPrefixMatch(remaining_name, trie_node, own)
  IN  IF sep = NoPos THEN LeafIndexes(trie_node, remaining_name, now)
      ELSE LET r == FindChildForString(area, node, remaining_name, sep) IN
           IF ~r.found THEN LeafIndexes(trie_node, remaining_name, now)
           ELSE WalkIndex(area, r.child, Skip(remaining_name, sep + 1), now)

\* PropertyInfoArea::GetPropertyInfoIndexes: [context, type] for name.
GetPropertyInfoIndexes(area, name) ==
  WalkIndex(area, RootNode, name, [context |-> NoIndex, type |-> NoIndex])


\* ContextsSerialized::GetPropAreaForName: the context node the name routes
\* to, or NoContextNode where the code returns nullptr.
NoContextNode == NoIndex
\* A router that falls back to the first context.
GetPropAreaForName_FirstContext(area, name, num_context_nodes_) ==
  LET index == GetPropertyInfoIndexes(area, name).context
  IN  IF index = NoIndex \/ index >= num_context_nodes_ THEN 0 ELSE index

GetPropAreaForName(area, name, num_context_nodes_) ==
  LET index == GetPropertyInfoIndexes(area, name).context
  IN  IF index = NoIndex \/ index >= num_context_nodes_ THEN NoContextNode ELSE index

(***************************************************************************)
(* Index files.  The index is written by the property-info serializer,     *)
(* which is not part of this library; BuildIndex lays out the trie that it *)
(* writes for a set of entries [name, context_index, exact]: a name ending *)
(* in a dot becomes a node carrying the context, any other prefix a prefix *)
(* entry of the node of its leading segments, an exact name an exact-match *)
(* entry of that node.  Children are sorted by name, prefixes by           *)
(* decreasing length.                                                      *)
(***************************************************************************)
RECURSIVE Split(_)
Split(s) ==
  LET p == Strchr(s, DOT)
  IN  IF p = NoPos THEN <<s>> ELSE <<Take(s, p)>> \o Split(Skip(s, p + 1))

RECURSIVE SetToSeq(_)
SetToSeq(S) ==
  IF S = {} THEN <<>>
  ELSE LET x == CHOOSE y \in S : TRUE IN <<x>> \o SetToSeq(S \ {x})

EndsWithDot(e) == Len(e.name) > 0 /\ e.name[Len(e.name)] = DOT
EntryKind(e) == IF e.exact THEN "exact" ELSE IF EndsWithDot(e) THEN "node" ELSE "prefix"
EntryPieces(e) ==
  LET p == Split(e.name) IN IF EndsWithDot(e) THEN Take(p, Len(p) - 1) ELSE p
\* The node that receives the entry, and the name the entry has there.
EntryOwner(e) ==
  IF EntryKind(e) = "node" THEN EntryPieces(e)
  ELSE Take(EntryPieces(e), Len(EntryPieces(e)) - 1)
EntryLeaf(e) == EntryPieces(e)[Len(EntryPieces(e))]

IndexNodes(entries) ==
  {RootNode} \cup UNION {{Take(EntryOwner(e), n) : n \in 0 .. Len(EntryOwner(e))} : e \in entries}

IndexItem(e) ==
  [name |-> EntryLeaf(e), namelen |-> Len(EntryLeaf(e)),
   context_index |-> e.context_index, type_index |-> NoIndex]

BuildIndex(entries, root_context) ==
  LET nodes == IndexNodes(entries)
      marks(p) == {e \in entries : EntryKind(e) = "node" /\ EntryOwner(e) = p}
      items(p, kind) == {IndexItem(e) : e \in {x \in entries : EntryKind(x) = kind /\ EntryOwner(x) = p}}
  IN  [p \in nodes |->
        [name          |-> IF p = RootNode THEN <<>> ELSE p[Len(p)],
         context_index |-> IF p = RootNode THEN root_context
                           ELSE IF marks(p) = {} THEN NoIndex
                           ELSE (CHOOSE e \in marks(p) : TRUE).context_index,
         type_index    |-> NoIndex,
         children      |-> SortSeq(SetToSeq({q \in nodes : Len(q) = Len(p) + 1 /\ Take(q, Len(p)) = p}),
                                   LAMBDA x, y : Strcmp(x[Len(x)], y[Len(y)]) < 0),
         prefixes      |-> SortSeq(SetToSeq(items(p, "prefix")),
                                   LAMBDA x, y : x.namelen > y.namelen),
         exact_matches |-> SetToSeq(items(p, "exact"))]]


(***************************************************************************)
(* Routing in indexed mode.  The index holds a prefix entry (label A), an  *)
(* exact name under it (label B), possibly an unrelated prefix (label      *)
(* OtherLabel) and possibly a root label.  Bytes: a = 97, b = 98, c = 99.  *)
(***************************************************************************)
StartsWith(name, prefix) ==
  Len(prefix) <= Len(name) /\ Take(name, Len(prefix)) = prefix

RootLabel  == 0
LabelA     == 1
LabelB     == 2
OtherLabel == 3
NumContextNodes == 4

RoutePrefixes == {<<97, DOT>>, <<97, DOT, 98>>, <<97>>, <<97, DOT, 98, DOT>>}
RouteExacts   == {<<97, DOT, 98>>, <<97, DOT, 98, DOT, 99>>, <<97, DOT, 98, 99>>,
                  <<97, 98>>, <<97, 98, DOT, 99>>, <<97, DOT, 97>>}
RouteOthers   == {<<>>, <<98, DOT>>, <<97, 97, DOT>>, <<98, DOT, 97>>}
RouteNames    == RouteExacts \cup
                 {<<97>>, <<98>>, <<99>>, <<97, DOT>>, <<97, DOT, 98, DOT, 97>>,
                  <<97, 98, DOT, 97>>, <<98, DOT, 97>>, <<98, DOT, 97, 98>>,
                  <<97, 97, DOT, 98>>, <<97, DOT, 98, DOT, 99, DOT, 97>>,
                  <<97, DOT, 98, 98>>, <<98, DOT, 99, DOT, 97>>}

\* The index files considered: the exact name lies under the prefix, and the
\* unrelated prefix neither lies under the prefix nor the prefix under it.
RouteConfigs ==
  {c \in [prefix : RoutePrefixes, exact : RouteExacts, other : RouteOthers,
          root : {RootLabel, NoIndex}] :
     /\ StartsWith(c.exact, c.prefix)
     /\ c.other # <<>> => ~StartsWith(c.other, c.prefix) /\ ~StartsWith(c.prefix, c.other)}

RouteEntries(c) ==
  {[name |-> c.prefix, context_index |-> LabelA, exact |-> FALSE],
   [name |-> c.exact, context_index |-> LabelB, exact |-> TRUE]}
  \cup (IF c.other = <<>> THEN {}
        ELSE {[name |-> c.other, context_index |-> OtherLabel, exact |-> FALSE]})

InitRoute ==
  /\ route_cfg \in RouteConfigs
  /\ info_area = BuildIndex(RouteEntries(route_cfg), route_cfg.root)
  /\ route_name = <<>>
  /\ route_result = [done |-> FALSE, index |-> NoIndex]
  /\ serial = [e \in Entries |-> 0]
  /\ value = [e \in Entries |-> BufOf(<<>>)]
  /\ hist = [e \in Entries |-> {}]
  /\ estate = [e \in Entries |-> "free"]
  /\ dirty_backup = BufOf(<<>>)
  /\ gserial = 0
  /\ WriterIdle
  /\ ReaderIdle
  /\ NoWaiters
  /\ SplitIdle
  /\ OpenIdle
  /\ SetIdle
  /\ TrieIdle
  /\ AreaIdle

\* A call of ContextsSerialized::GetPropAreaForName(name).
Route(name) ==
  /\ route_name' = name
  /\ route_result' = [done |-> TRUE,
                      index |-> GetPropAreaForName(info_area, name, NumContextNodes)]
  /\ UNCHANGED <<info_area, route_cfg, protoVars, writerVars, readerVars, waiterVars,
                 splitVars, areaVars, openVars, setVars, trieVars>>

NextRoute == \E name \in RouteNames : Route(name)

SpecRoute == InitRoute /\ [][NextRoute]_vars

\* C9: in indexed mode, with a prefix mapped to label A and an exact name
\* under it mapped to label B, the exact name routes to B, every other name
\* under the prefix routes to A, and a name under no configured prefix routes
\* to the root label, or to no area when the root carries no label.  (A name
\* under the unrelated prefix routes to that prefix's label.)
C9_IndexedRouting ==
  route_result.done =>
    route_result.index =
      IF route_name = route_cfg.exact THEN LabelB
      ELSE IF StartsWith(route_name, route_cfg.prefix) THEN LabelA
      ELSE IF route_cfg.other # <<>> /\ StartsWith(route_name, route_cfg.other)
        THEN OtherLabel
      ELSE IF route_cfg.root = NoIndex THEN NoContextNode
      ELSE RootLabel

\* C9 witness: the exact name has been routed to B although the prefix entry
\* of the same node matches it too.
C9_Witness ==
  /\ route_result.done
  /\ route_name = route_cfg.exact
  /\ route_cfg.prefix = <<97, DOT, 98>>
  /\ route_cfg.exact = <<97, DOT, 98, 99>>
  /\ route_result.index = LabelB

(***************************************************************************)
(* Routing in text mode (ContextsSplit).  A line of the contexts file is   *)
(* what read_spec_entries made of it: [items, prop_prefix, context].       *)
(* A PrefixNode is [prefix, prefix_len, context]; its context, a pointer   *)
(* to the one ContextListNode of a label, is that label.                   *)
(***************************************************************************)
\* ListAdd: a new node in front of the list.
ListAdd(list, node) == <<node>> \o list

\* ListFind: the position of the first node func accepts, or 0; func[i] is
\* the predicate's answer for the i-th node.
ListFind(list, func) ==
  IF \E i \in 1 .. Len(list) : func[i]
    THEN Min({i \in 1 .. Len(list) : func[i]})
    ELSE 0

PrefixNode(prefix, context) ==
  [prefix |-> prefix, prefix_len |-> Len(prefix), context |-> context]

\* Faulty variant: the walk stops at a shorter prefix only, not at a wildcard.
InsertPos_LenOnly(list, prefix_len) ==
  LET at == ListFind(list, [i \in 1 .. Len(list) |-> list[i].prefix_len < prefix_len])
  IN  IF at = 0 THEN Len(list) + 1 ELSE at

\* Where ListAddAfterLen puts the new node: in front of the first node with a
\* shorter prefix or a wildcard, or at the end.
InsertPos(list, prefix_len) ==
  LET at == ListFind(list, [i \in 1 .. Len(list) |->
                             list[i].prefix_len < prefix_len \/ CharAt(list[i].prefix, 0) = STAR])
  IN  IF at = 0 THEN Len(list) + 1 ELSE at

\* An insertion that ignores the lengths (what C10 must tell apart).
ListAddAfterLen_AtHead(list, prefix, context) ==
  ListAdd(list, PrefixNode(prefix, context))

ListAddAfterLen(list, prefix, context) ==
  LET at == InsertPos(list, Len(prefix))
  IN  Take(list, at - 1) \o ListAdd(Skip(list, at - 1), PrefixNode(prefix, context))

CTL == <<99, 116, 108, DOT>>

\* One turn of the getline loop of InitializePropertiesFromFile on the lists
\* st = [prefixes_, contexts_].
LoadLine(st, line) ==
  IF line.items <= 1 THEN st
  ELSE IF Strncmp(line.prop_prefix, CTL, 4) = 0 THEN st
  ELSE LET old_context == ListFind(st.contexts_, [i \in 1 .. Len(st.contexts_) |->
                                                  st.contexts_[i] = line.context]) IN
       IF old_context # 0
         THEN [st EXCEPT !.prefixes_ =
                 ListAddAfterLen(@, line.prop_prefix, st.contexts_[old_context])]
         ELSE [prefixes_ |-> ListAddAfterLen(st.prefixes_, line.prop_prefix, line.context),
               contexts_ |-> ListAdd(st.contexts_, line.context)]

RECURSIVE LoadLines(_, _)
LoadLines(st, lines) ==
  IF lines = <<>> THEN st ELSE LoadLines(LoadLine(st, Head(lines)), Tail(lines))

\* ContextsSplit::GetPrefixNodeForName: the position of the entry, or 0.
GetPrefixNodeForName(list, name) ==
  ListFind(list, [i \in 1 .. Len(list) |->
                    CharAt(list[i].prefix, 0) = STAR
                    \/ Strncmp(list[i].prefix, name, list[i].prefix_len) = 0])

MaxLines == 3

SplitLine(items, prop_prefix, context) ==
  [items |-> items, prop_prefix |-> prop_prefix, context |-> context]
SplitLines ==
  {SplitLine(2, <<STAR>>, "u:r:one"), SplitLine(2, <<STAR>>, "u:r:two"),
   SplitLine(2, <<97>>, "u:r:one"), SplitLine(2, <<97>>, "u:r:two"),
   SplitLine(2, <<97, 98>>, "u:r:one"), SplitLine(2, <<97, 98>>, "u:r:two"),
   SplitLine(2, <<97, DOT, 98>>, "u:r:two"),
   SplitLine(2, CTL \o <<97>>, "u:r:ctl"),
   SplitLine(1, <<97, 98>>, "")}
SplitFiles == UNION {[1 .. n -> SplitLines] : n \in 0 .. MaxLines}
SplitNames == {<<>>, <<97>>, <<97, 98>>, <<97, 98, 99>>, <<97, DOT, 98>>, <<97, DOT, 98, DOT, 99>>,
               <<98>>, CTL \o <<97>>, CTL \o <<97, 98>>}

InitSplit ==
  /\ split_file \in SplitFiles
  /\ split_pc = "new"
  /\ prefixes_ = <<>>
  /\ contexts_ = <<>>
  /\ split_name = <<>>
  /\ split_result = [done |-> FALSE, context |-> ""]
  /\ serial = [e \in Entries |-> 0]
  /\ value = [e \in Entries |-> BufOf(<<>>)]
  /\ hist = [e \in Entries |-> {}]
  /\ estate = [e \in Entries |-> "free"]
  /\ dirty_backup = BufOf(<<>>)
  /\ gserial = 0
  /\ WriterIdle
  /\ ReaderIdle
  /\ NoWaiters
  /\ RouteIdle
  /\ AreaIdle
  /\ OpenIdle
  /\ SetIdle
  /\ TrieIdle

InitializePropertiesFromFile ==
  /\ split_pc = "new"
  /\ LET st == LoadLines([prefixes_ |-> prefixes_, contexts_ |-> contexts_], split_file)
     IN  prefixes_' = st.prefixes_ /\ contexts_' = st.contexts_
  /\ split_pc' = "loaded"
  /\ UNCHANGED <<split_file, split_name, split_result, protoVars, writerVars, readerVars,
                 waiterVars, routeVars, areaVars, openVars, setVars, trieVars>>

\* ContextsSplit::GetContextForName / GetPropAreaForName: the label of the
\* entry GetPrefixNodeForName finds, "" standing for nullptr.
SplitRoute(name) ==
  /\ split_pc = "loaded"
  /\ split_name' = name
  /\ LET entry == GetPrefixNodeForName(prefixes_, name)
     IN  split_result' = [done |-> TRUE,
                          context |-> IF entry = 0 THEN "" ELSE prefixes_[entry].context]
  /\ UNCHANGED <<split_file, split_pc, prefixes_, contexts_, protoVars, writerVars,
                 readerVars, waiterVars, routeVars, areaVars, openVars, setVars, trieVars>>

NextSplit ==
  \/ InitializePropertiesFromFile
  \/ \E name \in SplitNames : SplitRoute(name)

SpecSplit == InitSplit /\ [][NextSplit]_vars

\* The lines of the file that configure a prefix: two items, not a control
\* prefix.
Configured(i) ==
  split_file[i].items = 2 /\ Strncmp(split_file[i].prop_prefix, CTL, 4) # 0

\* The configured non-wildcard lines whose prefix is a prefix of name, and the
\* longest of them.
MatchingLines(name) ==
  {i \in 1 .. Len(split_file) :
     /\ Configured(i)
     /\ split_file[i].prop_prefix # <<STAR>>
     /\ StartsWith(name, split_file[i].prop_prefix)}

LongestLines(name) ==
  {i \in MatchingLines(name) :
     \A j \in MatchingLines(name) :
       Len(split_file[j].prop_prefix) <= Len(split_file[i].prop_prefix)}

WildcardLines ==
  {i \in 1 .. Len(split_file) : Configured(i) /\ split_file[i].prop_prefix = <<STAR>>}

PROP_VALUE_MAX == 92
PA_SIZE == 128 * 1024
SizeofPropArea == 128
SizeofPropBt == 20
SizeofPropInfo == 96
pa_data_size_ == PA_SIZE - SizeofPropArea

kLongFlag == Pow2(16)
kLongLegacyError ==
  <<77, 117, 115, 116, 32, 117, 115, 101, 32, 95, 95, 115, 121, 115,
    116, 101, 109, 95, 112, 114, 111, 112, 101, 114, 116, 121, 95, 114,
    101, 97, 100, 95, 99, 97, 108, 108, 98, 97, 99, 107, 40, 41, 32,
    116, 111, 32, 114, 101, 97, 100>>

\* An allocator that does not round the size up.
Align4_None(size) == size

\* __BIONIC_ALIGN(size, sizeof(uint_least32_t))
Align4(size) == ((size + 3) \div 4) * 4

NewBt(name) ==
  [name |-> name, namelen |-> Len(name), prop |-> 0, left |-> 0, right |-> 0, children |-> 0]

\* A mapped file is zero-filled, and so is what remove and prune_trie wipe.
ZeroBt == [name |-> <<>>, namelen |-> 0, prop |-> 0, left |-> 0, right |-> 0, children |-> 0]
ZeroInfo == [name |-> <<>>, serial |-> 0, value |-> <<>>, long_offset |-> 0]

\* prop_area::prop_area: the root node and the dirty backup area are taken
\* from the data region.
NewArea ==
  [bytes_used_ |-> SizeofPropBt + Align4(PROP_VALUE_MAX),
   dirty_backup_area |-> <<>>,
   bt   |-> (0 :> ZeroBt),
   info |-> <<>>,
   blob |-> <<>>]

\* prop_area::allocate_obj: [ok, off, pa]
allocate_obj(pa, size) ==
  LET aligned == Align4(size) IN
  IF pa.bytes_used_ + aligned > pa_data_size_
    THEN [ok |-> FALSE, off |-> 0, pa |-> pa]
    ELSE [ok |-> TRUE, off |-> pa.bytes_used_,
          pa |-> [pa EXCEPT !.bytes_used_ = @ + aligned]]

\* prop_area::new_prop_bt: [ok, off, pa]
new_prop_bt(pa, name) ==
  LET constructed(r) == IF r.ok THEN [r EXCEPT !.pa.bt = (r.off :> NewBt(name)) @@ @] ELSE r
  IN  constructed(allocate_obj(pa, SizeofPropBt + Len(name) + 1))

\* An entry constructed without its value (what C3 must tell apart).
ShortInfo_NoValue(name, val) ==
  [name |-> name, serial |-> InitialSerial(Len(val)), value |-> <<>>, long_offset |-> 0]

\* prop_info::prop_info, the two constructors
ShortInfo(name, val) ==
  [name |-> name, serial |-> InitialSerial(Len(val)), value |-> val, long_offset |-> 0]
LongInfo(name, long_offset) ==
  [name |-> name, serial |-> Len(kLongLegacyError) * Pow2(24) + kLongFlag,
   value |-> kLongLegacyError, long_offset |-> long_offset]

\* prop_info::is_long
is_long(info) == (info.serial \div kLongFlag) % 2 = 1

\* An allocation that builds the short form whatever the length.
new_prop_info_Short(pa, name, val) ==
  LET constructed(r) ==
        IF ~r.ok THEN r ELSE [r EXCEPT !.pa.info = (r.off :> ShortInfo(name, val)) @@ @]
  IN  constructed(allocate_obj(pa, SizeofPropInfo + Len(name) + 1))

\* prop_area::new_prop_info: [ok, off, pa].  When the long value cannot be
\* allocated the entry's own allocation stays taken.
new_prop_info(pa, name, val) ==
  LET long(r, l) ==
        IF ~l.ok THEN [ok |-> FALSE, off |-> 0, pa |-> l.pa]
        ELSE [ok |-> TRUE, off |-> r.off,
              pa |-> [l.pa EXCEPT !.blob = (l.off :> val) @@ @,
                                  !.info = (r.off :> LongInfo(name, l.off - r.off)) @@ @]]
      constructed(r) ==
        IF ~r.ok THEN r
        ELSE IF Len(val) >= PROP_VALUE_MAX THEN long(r, allocate_obj(r.pa, Len(val) + 1))
        ELSE [r EXCEPT !.pa.info = (r.off :> ShortInfo(name, val)) @@ @]
  IN  constructed(allocate_obj(pa, SizeofPropInfo + Len(name) + 1))

\* Faulty variant: the bytes are compared before the lengths.
cmp_prop_name_BytesFirst(one, two) == Strcmp(one, two)

\* cmp_prop_name
cmp_prop_name(one, two) ==
  IF Len(one) < Len(two) THEN -1
  ELSE IF Len(one) > Len(two) THEN 1
  ELSE Strncmp(one, two, Len(one))

\* prop_area::find_prop_bt from the node at bt_off: [off, pa], off = 0 for
\* nullptr.
RECURSIVE find_prop_bt(_, _, _, _)
find_prop_bt(pa, bt_off, name, alloc_if_needed) ==
  LET linked(n, link) ==
        IF n.ok THEN [off |-> n.off, pa |-> [n.pa EXCEPT !.bt[bt_off][link] = n.off]]
        ELSE [off |-> 0, pa |-> n.pa]
      descend(link) ==
        IF pa.bt[bt_off][link] # 0
          THEN find_prop_bt(pa, pa.bt[bt_off][link], name, alloc_if_needed)
        ELSE IF ~alloc_if_needed THEN [off |-> 0, pa |-> pa]
        ELSE linked(new_prop_bt(pa, name), link)
      compared(ret) ==
        IF ret = 0 THEN [off |-> bt_off, pa |-> pa]
        ELSE IF ret < 0 THEN descend("left")
        ELSE descend("right")
  IN  compared(cmp_prop_name(name, pa.bt[bt_off].name))

\* prop_area::traverse_trie: the loop from the node at current with
\* remaining_name left: [off, pa].
RECURSIVE traverse_trie(_, _, _, _)
\* A walk that stops at the node it has reached when a segment is empty.
traverse_trie_AnySegment(pa, current, remaining_name, alloc_if_needed) ==
  LET linked(n) ==
        IF n.ok THEN [off |-> n.off, pa |-> [n.pa EXCEPT !.bt[current].children = n.off]]
        ELSE [off |-> 0, pa |-> pa]
      subtree(segment) ==
        IF pa.bt[current].children # 0 THEN [off |-> pa.bt[current].children, pa |-> pa]
        ELSE IF alloc_if_needed THEN linked(new_prop_bt(pa, segment))
        ELSE [off |-> 0, pa |-> pa]
      next(found, sep) ==
        IF found.off = 0 THEN found
        ELSE IF sep = NoPos THEN found
        ELSE traverse_trie(found.pa, found.off, Skip(remaining_name, sep + 1), alloc_if_needed)
      search(root, segment, sep) ==
        IF root.off = 0 THEN root
        ELSE next(find_prop_bt(root.pa, root.off, segment, alloc_if_needed), sep)
      sized(substr_size, sep) ==
        IF substr_size = 0 THEN [off |-> current, pa |-> pa]
        ELSE search(subtree(Take(remaining_name, substr_size)),
                    Take(remaining_name, substr_size), sep)
      at(sep) == sized(IF sep # NoPos THEN sep ELSE Len(remaining_name), sep)
  IN  at(Strchr(remaining_name, DOT))

traverse_trie(pa, current, remaining_name, alloc_if_needed) ==
  LET linked(n) ==
        IF n.ok THEN [off |-> n.off, pa |-> [n.pa EXCEPT !.bt[current].children = n.off]]
        ELSE [off |-> 0, pa |-> pa]
      \* root, and the area once the children link is settled
      subtree(segment) ==
        IF pa.bt[current].children # 0 THEN [off |-> pa.bt[current].children, pa |-> pa]
        ELSE IF alloc_if_needed THEN linked(new_prop_bt(pa, segment))
        ELSE [off |-> 0, pa |-> pa]
      next(found, sep) ==
        IF found.off = 0 THEN found
        ELSE IF sep = NoPos THEN found
        ELSE traverse_trie(found.pa, found.off, Skip(remaining_name, sep + 1), alloc_if_needed)
      search(root, segment, sep) ==
        IF root.off = 0 THEN root
        ELSE next(find_prop_bt(root.pa, root.off, segment, alloc_if_needed), sep)
      sized(substr_size, sep) ==
        IF substr_size = 0 THEN [off |-> 0, pa |-> pa]
        ELSE search(subtree(Take(remaining_name, substr_size)),
                    Take(remaining_name, substr_size), sep)
      at(sep) == sized(IF sep # NoPos THEN sep ELSE Len(remaining_name), sep)
  IN  at(Strchr(remaining_name, DOT))

\* A lookup that creates the nodes it does not find.
find_property_Allocating(pa, name, val, alloc_if_needed) ==
  LET reached(t) ==
        IF t.off = 0 THEN t ELSE [off |-> t.pa.bt[t.off].prop, pa |-> t.pa]
  IN  reached(traverse_trie(pa, 0, name, TRUE))

\* prop_area::find_property: [off, pa], off the prop_info or 0.
find_property(pa, name, val, alloc_if_needed) ==
  LET linked(t, n) ==
        IF n.ok THEN [off |-> n.off, pa |-> [n.pa EXCEPT !.bt[t.off].prop = n.off]]
        ELSE [off |-> 0, pa |-> n.pa]
      reached(t) ==
        IF t.off = 0 THEN t
        ELSE IF t.pa.bt[t.off].prop # 0 THEN [off |-> t.pa.bt[t.off].prop, pa |-> t.pa]
        ELSE IF alloc_if_needed THEN linked(t, new_prop_info(t.pa, name, val))
        ELSE [off |-> 0, pa |-> t.pa]
  IN  reached(traverse_trie(pa, 0, name, alloc_if_needed))

\* prop_area::foreach_property: the prop_info offsets propfn is called with,
\* in call order.
RECURSIVE foreach_property(_, _)
\* Faulty variant: propfn is called for every node, with or without property.
foreach_property_EveryNode(pa, trie) ==
  LET node == pa.bt[trie] IN
     (IF node.left # 0 THEN foreach_property(pa, node.left) ELSE <<>>)
  \o <<node.prop>>
  \o (IF node.children # 0 THEN foreach_property(pa, node.children) ELSE <<>>)
  \o (IF node.right # 0 THEN foreach_property(pa, node.right) ELSE <<>>)

\* A walk that leaves out the right subtree (what C7 must tell apart).
foreach_property_NoRight(pa, trie) ==
  LET node == pa.bt[trie] IN
     (IF node.left # 0 THEN foreach_property(pa, node.left) ELSE <<>>)
  \o (IF node.prop # 0 THEN <<node.prop>> ELSE <<>>)
  \o (IF node.children # 0 THEN foreach_property(pa, node.children) ELSE <<>>)

foreach_property(pa, trie) ==
  LET node == pa.bt[trie] IN
     (IF node.left # 0 THEN foreach_property(pa, node.left) ELSE <<>>)
  \o (IF node.prop # 0 THEN <<node.prop>> ELSE <<>>)
  \o (IF node.children # 0 THEN foreach_property(pa, node.children) ELSE <<>>)
  \o (IF node.right # 0 THEN foreach_property(pa, node.right) ELSE <<>>)

\* prop_area::find and prop_area::add
find(pa, name) == find_property(pa, name, <<>>, FALSE).off
add(pa, name, val) ==
  LET result(r) == [ret |-> r.off # 0, pa |-> r.pa]
  IN  result(find_property(pa, name, val, TRUE))

\* prop_area::prune_trie: [leaf, pa]; a leaf without property is wiped and
\* reported to the caller, which clears its link.
RECURSIVE prune_trie(_, _)
\* A pruning that wipes the node whatever it holds (what C6 must tell apart).
prune_trie_Eager(pa, node) ==
  [leaf |-> TRUE, pa |-> [pa EXCEPT !.bt[node] = ZeroBt]]

prune_trie(pa, node) ==
  LET cleared(r, link) == IF r.leaf THEN [r.pa EXCEPT !.bt[node][link] = 0] ELSE r.pa
      through(p, link) ==
        IF p.bt[node][link] # 0 THEN cleared(prune_trie(p, p.bt[node][link]), link) ELSE p
      wiped(p) ==
        IF /\ p.bt[node].children = 0 /\ p.bt[node].left = 0 /\ p.bt[node].right = 0
           /\ p.bt[node].prop = 0
          THEN [leaf |-> TRUE, pa |-> [p EXCEPT !.bt[node] = ZeroBt]]
          ELSE [leaf |-> FALSE, pa |-> p]
  IN  wiped(through(through(through(pa, "children"), "left"), "right"))

\* A removal that also cuts off what lies below the node.
remove_Detaching(pa, name, prune) ==
  LET held(node, prop_offset) ==
        IF prop_offset = 0 THEN [ret |-> FALSE, pa |-> pa]
        ELSE [ret |-> TRUE,
              pa |-> [pa EXCEPT !.bt[node].prop = 0,
                                !.bt[node].children = 0,
                                !.info[prop_offset] = ZeroInfo]]
      reached(node) ==
        IF node = 0 THEN [ret |-> FALSE, pa |-> pa] ELSE held(node, pa.bt[node].prop)
  IN  reached(traverse_trie(pa, 0, name, FALSE).off)

\* A removal that hands the entry's bytes back to the allocator.
remove_Reclaiming(pa, name, prune) ==
  LET held(node, prop_offset) ==
        IF prop_offset = 0 THEN [ret |-> FALSE, pa |-> pa]
        ELSE [ret |-> TRUE,
              pa |-> [pa EXCEPT !.bt[node].prop = 0,
                                !.info[prop_offset] = ZeroInfo,
                                !.bytes_used_ = @ - Align4(SizeofPropInfo + Len(name) + 1)]]
      reached(node) ==
        IF node = 0 THEN [ret |-> FALSE, pa |-> pa] ELSE held(node, pa.bt[node].prop)
  IN  reached(traverse_trie(pa, 0, name, FALSE).off)

\* prop_area::remove: [ret, pa]
remove(pa, name, prune) ==
  LET pruned(p) == IF prune THEN prune_trie(p, 0).pa ELSE p
      wiped(node, prop_offset, prop) ==
        [ret |-> TRUE,
         pa |-> pruned([pa EXCEPT
                  !.bt[node].prop = 0,
                  !.blob = IF is_long(prop)
                             THEN [@ EXCEPT ![prop_offset + prop.long_offset] = <<>>]
                             ELSE @,
                  !.info[prop_offset] = ZeroInfo])]
      held(node, prop_offset) ==
        IF prop_offset = 0 THEN [ret |-> FALSE, pa |-> pa]
        ELSE wiped(node, prop_offset, pa.info[prop_offset])
      reached(node) ==
        IF node = 0 THEN [ret |-> FALSE, pa |-> pa] ELSE held(node, pa.bt[node].prop)
  IN  reached(traverse_trie(pa, 0, name, FALSE).off)

(***************************************************************************)
(* SystemProperties over the areas.  Two processes share the area files:   *)
(* "init", initialised writable, which has every area mapped and makes the *)
(* add / update / delete calls, and "client", initialised read-only, which *)
(* maps an area on first use if it may read the file.  Both read.          *)
(***************************************************************************)
Procs == {"init", "client"}
NumAreas == 2
AreaIds == 0 .. NumAreas - 1

\* Names beginning with "ro." live in area 1, all others in area 0 (the root
\* label of the index).
RO_DOT == <<114, 111, DOT>>
AreaIndex ==
  BuildIndex({[name |-> RO_DOT, context_index |-> 1, exact |-> FALSE]}, 0)

\* is_read_only
is_read_only(name) == Strncmp(name, RO_DOT, 3) = 0

\* Whether map_prop_area / access(R_OK) succeeds for the process.
CanRead(p, c) == p = "init" \/ readable[c]

\* Whether the process's mapping of the area has PROT_WRITE: init created the
\* files with map_prop_area_rw; map_prop_area maps with PROT_WRITE when the
\* file could be opened O_RDWR.
CanWrite(p, c) == p = "init" \/ writable[c]

\* ContextNode::Open(false, nullptr) in process p: the new pa_ of the node.
Open(p, c) == pa_[p][c] \/ CanRead(p, c)

\* A lookup that leaves a node alone once a denial is recorded in it.
AreaForName_Remembering(p, name) ==
  LET index == GetPropAreaForName(info_area, name, NumAreas) IN
  IF index = NoContextNode THEN [index |-> index, pa |-> FALSE, opens |-> FALSE]
  ELSE IF no_access_[p][index] THEN [index |-> index, pa |-> pa_[p][index], opens |-> FALSE]
  ELSE [index |-> index, pa |-> Open(p, index), opens |-> ~pa_[p][index]]

\* ContextsSerialized::GetPropAreaForName in process p:
\* [index, pa, opens] with pa whether an area is returned, and the node's new
\* pa_, and opens whether Open was called.
AreaForName(p, name) ==
  LET index == GetPropAreaForName(info_area, name, NumAreas) IN
  IF index = NoContextNode THEN [index |-> index, pa |-> FALSE, opens |-> FALSE]
  ELSE [index |-> index, pa |-> Open(p, index), opens |-> ~pa_[p][index]]

\* pa_ after AreaForName(p, name) returned r
OpenedBy(p, r) ==
  IF r.index = NoContextNode THEN pa_ ELSE [pa_ EXCEPT ![p][r.index] = r.pa]

\* A check that does not look at the recorded denial.
CheckAccessAndOpen_Forgetful(p, c) ==
  IF ~pa_[p][c]
    THEN IF ~CanRead(p, c) \/ ~Open(p, c)
           THEN [pa |-> FALSE, no_access |-> TRUE]
           ELSE [pa |-> TRUE, no_access |-> FALSE]
    ELSE [pa |-> pa_[p][c], no_access |-> no_access_[p][c]]

\* A reset that keeps a recorded denial.
ResetAccess_Sticky(p, c) ==
  [pa |-> pa_[p][c] /\ CanRead(p, c), no_access |-> no_access_[p][c] \/ ~CanRead(p, c)]

\* ContextNode::ResetAccess in process p: [pa, no_access] of the node
\* afterwards.
ResetAccess(p, c) ==
  [pa |-> pa_[p][c] /\ CanRead(p, c), no_access |-> ~CanRead(p, c)]

\* ContextNode::CheckAccessAndOpen in process p: [pa, no_access] of the node
\* afterwards.
CheckAccessAndOpen(p, c) ==
  IF ~pa_[p][c] /\ ~no_access_[p][c]
    THEN IF ~CanRead(p, c) \/ ~Open(p, c)
           THEN [pa |-> FALSE, no_access |-> TRUE]
           ELSE [pa |-> TRUE, no_access |-> FALSE]
    ELSE [pa |-> pa_[p][c], no_access |-> no_access_[p][c]]

\* ContextsSerialized::ForEach in process p: the entries <<area, offset>>
\* propfn is called with, in call order.
RECURSIVE ForEachFrom(_, _)
ForEachFrom(p, i) ==
  IF i >= NumAreas THEN <<>>
  ELSE (IF CheckAccessAndOpen(p, i).pa
          THEN LET offs == foreach_property(areas[i], 0)
               IN  [k \in 1 .. Len(offs) |-> <<i, offs[k]>>]
          ELSE <<>>)
       \o ForEachFrom(p, i + 1)

ForEach(p) == ForEachFrom(p, 0)

\* The value and length SystemProperties::Read hands back for an entry at
\* rest: the first len + 1 bytes of pi->value as a C string, and len.
ReadValue(info) ==
  LET len == SERIAL_VALUE_LEN(info.serial)
      copied == [i \in 1 .. len + 1 |-> CharAt(info.value, i - 1)]
      nul == Min({i \in 1 .. len + 1 : copied[i] = 0} \cup {len + 2})
  IN  [value |-> Take(copied, nul - 1), ret |-> len]

\* find_nth::fn, one callback: st = [sought, current, result]
FindNthFn_PreIncrement(st, pi) ==
  [st EXCEPT !.current = @ + 1,
             !.result = IF st.current + 1 = st.sought THEN pi ELSE @]

FindNthFn(st, pi) ==
  [st EXCEPT !.current = @ + 1,
             !.result = IF st.current = st.sought THEN pi ELSE @]

RECURSIVE FindNthFold(_, _)
FindNthFold(st, visits) ==
  IF visits = <<>> THEN st
  ELSE FindNthFold(FindNthFn(st, Head(visits)), Tail(visits))

MaxCalls == 3
MaxNth == 2

\* a, a.b, a.c, ro.a and a..b (an empty segment)
PropNames == {<<97>>, <<97, DOT, 98>>, <<97, DOT, 99>>, RO_DOT \o <<97>>,
              <<97, DOT, DOT, 98>>}
LongValue == [i \in 1 .. PROP_VALUE_MAX |-> 122]
PropValues == {<<120>>, LongValue}

Forget(f, name) == [n \in DOMAIN f \ {name} |-> f[n]]

\* Contexts::rw_ of the process initialised by AreaInit: the areas it
\* created are mapped read-write, and the writer operations succeed there.
AreaInitRw == TRUE

InitArea ==
  /\ areas = [c \in AreaIds |-> NewArea]
  /\ pa_ = [p \in Procs |-> [c \in AreaIds |-> p = "init"]]
  /\ no_access_ = [p \in Procs |-> [c \in AreaIds |-> FALSE]]
  /\ denied = [p \in Procs |-> [c \in AreaIds |-> FALSE]]
  /\ readable \in {[c \in AreaIds |-> TRUE], [c \in AreaIds |-> c = 0]}
  /\ initialized_ = [p \in Procs |-> TRUE]
  /\ rw_ = [p \in Procs |-> IF p = "init" THEN AreaInitRw ELSE FALSE]
  /\ writable = [c \in AreaIds |-> FALSE]
  /\ serial_access = "ro"
  /\ stored = {}
  /\ added = <<>>
  /\ exhausted = {}
  /\ last = [op |-> "none"]
  /\ info_area = AreaIndex
  /\ route_cfg = <<>>
  /\ route_name = <<>>
  /\ route_result = [done |-> FALSE, index |-> NoIndex]
  /\ serial = [e \in Entries |-> 0]
  /\ value = [e \in Entries |-> BufOf(<<>>)]
  /\ hist = [e \in Entries |-> {}]
  /\ estate = [e \in Entries |-> "free"]
  /\ dirty_backup = BufOf(<<>>)
  /\ gserial = 0
  /\ WriterIdle
  /\ ReaderIdle
  /\ NoWaiters
  /\ SplitIdle
  /\ OpenIdle
  /\ SetIdle
  /\ TrieIdle

\* The area a name is routed to.
AreaOf(name) == GetPropAreaForName(info_area, name, NumAreas)

\* What a call through SystemProperties leaves alone besides the areas, the
\* state of the calling process and the histories.
AreaFrame ==
  UNCHANGED <<readable, writable, serial_access, estate, serial, value, dirty_backup,
              hist, writerVars, readerVars, waiterVars, routeVars, splitVars, openVars, setVars, trieVars>>

\* A store through a mapping without PROT_WRITE: the call does not return,
\* the process is killed by the signal.
SIGSEGV == -11

\* The state of process p after a call: its context nodes as the call left
\* them, or, when the call was killed, those of the process started in its
\* place, which has not called Init yet.
ProcAfter(p, opened, killed) ==
  /\ pa_' = IF killed THEN [pa_ EXCEPT ![p] = [c \in AreaIds |-> FALSE]] ELSE opened
  /\ no_access_' = IF killed THEN [no_access_ EXCEPT ![p] = [c \in AreaIds |-> FALSE]]
                   ELSE no_access_
  /\ initialized_' = IF killed THEN [initialized_ EXCEPT ![p] = FALSE] ELSE initialized_
  /\ rw_' = IF killed THEN [rw_ EXCEPT ![p] = FALSE] ELSE rw_
  /\ denied' = IF killed THEN [denied EXCEPT ![p] = [c \in AreaIds |-> FALSE]] ELSE denied

\* The name has a segment of length 0: traverse_trie returns nullptr on it.
RECURSIVE HasEmptySegment(_)
HasEmptySegment(name) ==
  LET sep == Strchr(name, DOT) IN
  IF sep = NoPos THEN Len(name) = 0
  ELSE sep = 0 \/ HasEmptySegment(Skip(name, sep + 1))

\* SystemProperties::Add(name, namelen, value, valuelen) in process p
Add_Call(p, name, val) ==
  LET fail == [op |-> "add", proc |-> p, name |-> name, value |-> val, ret |-> -1]
      added_to(area, r) ==
        IF r.pa # areas[area.index] /\ ~CanWrite(p, area.index)
          THEN /\ last' = [fail EXCEPT !.ret = SIGSEGV]
               /\ ProcAfter(p, pa_, TRUE)
               /\ UNCHANGED <<areas, gserial, stored, added, exhausted>>
        ELSE IF ~r.ret
          THEN /\ areas' = [areas EXCEPT ![area.index] = r.pa]
               /\ last' = fail
               /\ exhausted' = IF HasEmptySegment(name) THEN exhausted
                                ELSE exhausted \cup {[area |-> area.index, namelen |-> Len(name),
                                                      valuelen |-> Len(val)]}
               /\ ProcAfter(p, OpenedBy(p, area), FALSE)
               /\ UNCHANGED <<gserial, stored, added>>
          ELSE /\ areas' = [areas EXCEPT ![area.index] = r.pa]
               /\ gserial' = NextGlobalSerial(gserial)
               /\ stored' = stored \cup {name}
               /\ added' = (name :> [value |-> val, fresh |-> name \notin stored]) @@ added
               /\ last' = [fail EXCEPT !.ret = 0]
               /\ ProcAfter(p, OpenedBy(p, area), FALSE)
               /\ UNCHANGED exhausted
      routed(area) ==
        IF ~area.pa
          THEN /\ last' = fail
               /\ ProcAfter(p, OpenedBy(p, area), FALSE)
               /\ UNCHANGED <<areas, gserial, stored, added, exhausted>>
          ELSE added_to(area, add(areas[area.index], name, val))
  IN  /\ gserial < MaxCalls
      /\ IF \/ Len(val) >= PROP_VALUE_MAX /\ ~is_read_only(name)
            \/ Len(name) < 1
            \/ ~initialized_[p]
            \/ ~rw_[p]
           THEN /\ last' = fail
                /\ ProcAfter(p, pa_, FALSE)
                /\ UNCHANGED <<areas, gserial, stored, added, exhausted>>
           ELSE routed(AreaForName(p, name))

\* Add where no thread waits on the global serial: the wake finds nobody.
Add(p, name, val) == Add_Call(p, name, val) /\ AreaFrame

\* SystemProperties::Update(pi, value, len) in process p, pi the entry
\* stored under name; the steps of the protocol taken as one.
Update(p, name, val) ==
  LET fail == [op |-> "update", proc |-> p, name |-> name, value |-> val, ret |-> -1]
      written(area, pi, info) ==
        IF ~CanWrite(p, area.index)
          THEN /\ last' = [fail EXCEPT !.ret = SIGSEGV]
               /\ ProcAfter(p, pa_, TRUE)
               /\ UNCHANGED <<areas, gserial, stored, added>>
          ELSE /\ areas' = [areas EXCEPT
                              ![area.index].dirty_backup_area = ReadValue(info).value,
                              ![area.index].info[pi].value = val,
                              ![area.index].info[pi].serial =
                                  CleanSerial(Len(val), DirtySerial(info.serial))]
               /\ gserial' = NextGlobalSerial(gserial)
               /\ added' = Forget(added, name)
               /\ last' = [fail EXCEPT !.ret = 0]
               /\ ProcAfter(p, OpenedBy(p, area), FALSE)
               /\ UNCHANGED stored
      routed(area, pi) ==
        IF ~area.pa
          THEN /\ last' = fail
               /\ ProcAfter(p, OpenedBy(p, area), FALSE)
               /\ UNCHANGED <<areas, gserial, stored, added>>
          ELSE written(area, pi, areas[area.index].info[pi])
      called(pi) ==
        /\ pi # 0
        /\ IF Len(val) >= PROP_VALUE_MAX \/ ~initialized_[p] \/ ~rw_[p]
             THEN /\ last' = fail
                  /\ ProcAfter(p, pa_, FALSE)
                  /\ UNCHANGED <<areas, gserial, stored, added>>
             ELSE routed(AreaForName(p, name), pi)
  IN  /\ gserial < MaxCalls
      /\ AreaOf(name) # NoContextNode
      /\ called(find(areas[AreaOf(name)], name))
      /\ UNCHANGED exhausted
      /\ AreaFrame

\* SystemProperties::Delete(name, prune) in process p
Delete(p, name, prune) ==
  LET fail == [op |-> "delete", proc |-> p, name |-> name, prune |-> prune, ret |-> -1]
      removed(area, r) ==
        IF ~r.ret
          THEN /\ last' = fail
               /\ ProcAfter(p, OpenedBy(p, area), FALSE)
               /\ UNCHANGED <<areas, gserial, stored, added>>
        ELSE IF ~CanWrite(p, area.index)
          THEN /\ last' = [fail EXCEPT !.ret = SIGSEGV]
               /\ ProcAfter(p, pa_, TRUE)
               /\ UNCHANGED <<areas, gserial, stored, added>>
          ELSE /\ areas' = [areas EXCEPT ![area.index] = r.pa]
               /\ gserial' = NextGlobalSerial(gserial)
               /\ stored' = stored \ {name}
               /\ added' = Forget(added, name)
               /\ last' = [fail EXCEPT !.ret = 0]
               /\ ProcAfter(p, OpenedBy(p, area), FALSE)
      routed(area) ==
        IF ~area.pa
          THEN /\ last' = fail
               /\ ProcAfter(p, OpenedBy(p, area), FALSE)
               /\ UNCHANGED <<areas, gserial, stored, added>>
          ELSE removed(area, remove(areas[area.index], name, prune))
  IN  /\ gserial < MaxCalls
      /\ IF ~initialized_[p] \/ ~rw_[p]
           THEN /\ last' = fail
                /\ ProcAfter(p, pa_, FALSE)
                /\ UNCHANGED <<areas, gserial, stored, added>>
           ELSE routed(AreaForName(p, name))
      /\ UNCHANGED exhausted
      /\ AreaFrame

\* What a read leaves alone besides the areas it walks and the context nodes
\* of the reading process.
ReadFrame ==
  UNCHANGED <<readable, initialized_, rw_, writable, serial_access, stored, added,
              exhausted, protoVars, writerVars, readerVars, waiterVars, routeVars, splitVars, openVars, setVars, trieVars>>

\* SystemProperties::Get(name, value) in process p: Find, then Read.  The
\* area is left as prop_area::find's walk through find_property leaves it.
Get(p, name) ==
  LET read(got, pi, opens) ==
        last' = [op |-> "get", proc |-> p, name |-> name, found |-> pi # 0,
                 value |-> got.value, ret |-> got.ret, opens |-> opens]
      found(index, f, opens) ==
        /\ areas' = [areas EXCEPT ![index] = f.pa]
        /\ read(IF f.off # 0 THEN ReadValue(f.pa.info[f.off])
                ELSE [value |-> <<>>, ret |-> 0], f.off, opens)
      routed(area) ==
        /\ pa_' = IF initialized_[p] THEN OpenedBy(p, area) ELSE pa_
        /\ IF initialized_[p] /\ area.pa
             THEN found(area.index, find_property(areas[area.index], name, <<>>, FALSE),
                        area.opens)
             ELSE /\ read([value |-> <<>>, ret |-> 0], 0, initialized_[p] /\ area.opens)
                  /\ UNCHANGED areas
  IN  /\ routed(AreaForName(p, name))
      /\ UNCHANGED <<no_access_, denied>>
      /\ ReadFrame

\* SystemProperties::ReadCallback(pi, callback, cookie) in process p, for
\* the entry Find gives for name: what callback is called with.  A read-only
\* entry is passed in place, the long value when it has one; any other is
\* copied by ReadMutablePropertyValue first.
\* Faulty variant: every entry is read through Read's copy of pi->value.
CallbackValue_Legacy(pa, pi, info) ==
  [value |-> ReadValue(info).value, from |-> "value_buf"]

\* What ReadCallback hands to the callback as value, and where it lies:
\* pi->long_value() or pi->value in place for a read-only name, else the
\* local value_buf filled by ReadMutablePropertyValue.
CallbackValue(pa, pi, info) ==
  IF is_read_only(info.name)
    THEN IF is_long(info)
           THEN [value |-> pa.blob[pi + info.long_offset], from |-> "long_value"]
           ELSE [value |-> Take(info.value, Min({Len(info.value)} \cup
                             {i - 1 : i \in {j \in 1 .. Len(info.value) : info.value[j] = 0}})),
                 from |-> "value"]
    ELSE [value |-> ReadValue(info).value, from |-> "value_buf"]

ReadCallback(p, name) ==
  LET called(pi, info, val) ==
        last' = [op |-> "read_callback", proc |-> p, name |-> name, found |-> TRUE,
                 value |-> val.value, from |-> val.from, serial |-> info.serial]
      passed(pa, pi, info) == called(pi, info, CallbackValue(pa, pi, info))
      found(index, f) ==
        /\ f.off # 0
        /\ areas' = [areas EXCEPT ![index] = f.pa]
        /\ passed(f.pa, f.off, f.pa.info[f.off])
      routed(area) ==
        /\ initialized_[p]
        /\ area.pa
        /\ pa_' = OpenedBy(p, area)
        /\ found(area.index, find_property(areas[area.index], name, <<>>, FALSE))
  IN  /\ routed(AreaForName(p, name))
      /\ UNCHANGED <<no_access_, denied>>
      /\ ReadFrame

\* The contexts a ContextsSerialized::ForEach of process p finds unreadable:
\* those for which CheckAccessAndOpen makes the check and it fails.
DeniedAfterForEach(p) ==
  [denied EXCEPT ![p] = [c \in AreaIds |->
     denied[p][c] \/ (~pa_[p][c] /\ ~no_access_[p][c] /\ ~CheckAccessAndOpen(p, c).pa)]]

\* The context nodes of process p after ContextsSerialized::ForEach.
NodesAfterForEach(p) ==
  [pa |-> [pa_ EXCEPT ![p] = [c \in AreaIds |-> CheckAccessAndOpen(p, c).pa]],
   no_access |-> [no_access_ EXCEPT ![p] = [c \in AreaIds |-> CheckAccessAndOpen(p, c).no_access]]]

\* SystemProperties::Foreach(propfn, cookie) in process p
Foreach(p) ==
  /\ IF ~initialized_[p]
       THEN /\ last' = [op |-> "foreach", proc |-> p, ret |-> -1, visited |-> <<>>]
            /\ UNCHANGED <<pa_, no_access_, denied>>
       ELSE /\ last' = [op |-> "foreach", proc |-> p, ret |-> 0, visited |-> ForEach(p)]
            /\ pa_' = NodesAfterForEach(p).pa
            /\ no_access_' = NodesAfterForEach(p).no_access
            /\ denied' = DeniedAfterForEach(p)
  /\ UNCHANGED areas
  /\ ReadFrame

\* SystemProperties::FindNth(n) in process p
FindNth(p, n) ==
  /\ LET visits == IF initialized_[p] THEN ForEach(p) ELSE <<>>
         state == FindNthFold([sought |-> n, current |-> 0, result |-> <<>>], visits)
     IN  last' = [op |-> "nth", proc |-> p, n |-> n, result |-> state.result]
  /\ IF initialized_[p]
       THEN /\ pa_' = NodesAfterForEach(p).pa
            /\ no_access_' = NodesAfterForEach(p).no_access
            /\ denied' = DeniedAfterForEach(p)
       ELSE UNCHANGED <<pa_, no_access_, denied>>
  /\ UNCHANGED areas
  /\ ReadFrame

\* SystemProperties::Init(filename) in the client: ResetAccess when already
\* initialised, else ContextsSerialized::Initialize(false, ...), which maps
\* properties_serial with map_prop_area(filename, &rw_).
Init(p) ==
  /\ IF initialized_[p]
       THEN /\ pa_' = [pa_ EXCEPT ![p] = [c \in AreaIds |-> ResetAccess(p, c).pa]]
            /\ no_access_' = [no_access_ EXCEPT ![p] = [c \in AreaIds |-> ResetAccess(p, c).no_access]]
            /\ denied' = [denied EXCEPT ![p] = [c \in AreaIds |-> FALSE]]
            /\ last' = [op |-> "init", proc |-> p, ret |-> TRUE,
                        unmapped |-> {c \in AreaIds : pa_[p][c] /\ ~CanRead(p, c)},
                        cleared |-> {c \in AreaIds : no_access_[p][c] /\ CanRead(p, c)}]
            /\ UNCHANGED <<initialized_, rw_>>
       ELSE IF serial_access = "none"
         THEN /\ last' = [op |-> "init", proc |-> p, ret |-> FALSE]
              /\ UNCHANGED <<pa_, no_access_, initialized_, rw_, denied>>
         ELSE /\ rw_' = [rw_ EXCEPT ![p] = serial_access = "rw"]
              /\ initialized_' = [initialized_ EXCEPT ![p] = TRUE]
              /\ last' = [op |-> "init", proc |-> p, ret |-> TRUE]
              /\ UNCHANGED <<pa_, no_access_, denied>>
  /\ UNCHANGED <<areas, gserial, stored, added, exhausted>>
  /\ AreaFrame

\* What a query leaves alone.
QueryFrame ==
  UNCHANGED <<areas, pa_, no_access_, readable, initialized_, rw_, writable, serial_access,
              stored, added, denied, exhausted, protoVars, writerVars, readerVars, waiterVars,
              routeVars, splitVars, openVars, setVars, trieVars>>

\* SystemProperties::AreaSerial in process p; before Init it returns -1 as
\* uint32_t (0xffffffff), written -1 here.
AreaSerial(p) ==
  /\ last' = [op |-> "serial", proc |-> p, ret |-> IF ~initialized_[p] THEN -1 ELSE gserial]
  /\ QueryFrame

\* SystemProperties::GetContext(name) in process p: the context the name has
\* in the index, by its index; NoIndex for nullptr.
GetContext(p, name) ==
  /\ last' = [op |-> "context", proc |-> p, name |-> name,
              ret |-> IF ~initialized_[p] THEN NoIndex
                      ELSE GetPropertyInfoIndexes(info_area, name).context]
  /\ QueryFrame

\* SystemProperties::Wait(nullptr, old_serial, &new_serial, relative_timeout)
\* in process p, from the call to its return.  The function returns bool:
\* "return -1" before Init converts to true, and *new_serial_ptr is not
\* written (NotWritten).  After Init the call returns true with the serial it
\* loaded once that differs from old_serial, or false when the timeout
\* elapses first; without a timeout it does not return while they are equal.
NotWritten == -1
Wait(p, old_serial, timed) ==
  /\ IF ~initialized_[p]
       THEN last' = [op |-> "wait", proc |-> p, ret |-> (-1 # 0), new_serial |-> NotWritten]
       ELSE IF gserial # old_serial
         THEN last' = [op |-> "wait", proc |-> p, ret |-> TRUE, new_serial |-> gserial]
         ELSE /\ timed
              /\ last' = [op |-> "wait", proc |-> p, ret |-> FALSE, new_serial |-> NotWritten]
  /\ QueryFrame

NextArea ==
  \/ \E name \in PropNames, val \in PropValues : Add("init", name, val)
  \/ \E name \in PropNames : Update("init", name, <<121, 121>>)
  \/ \E name \in PropNames, prune \in BOOLEAN : Delete("init", name, prune)
  \/ \E p \in Procs, name \in PropNames : Get(p, name)
  \/ Foreach("client")
  \/ \E n \in 0 .. MaxNth : FindNth("client", n)

SpecArea == InitArea /\ [][NextArea]_vars

(***************************************************************************)
(* The calls of a client that has not called Init yet, under the index     *)
(* files and file permissions it may meet.  init fills the areas.          *)
(***************************************************************************)
\* An index without a root label: names outside "ro." have no context (~0u).
NoRootIndex ==
  BuildIndex({[name |-> RO_DOT, context_index |-> 1, exact |-> FALSE]}, NoIndex)

\* An index whose "ro." entry names a context beyond the contexts of the file.
BeyondIndex ==
  BuildIndex({[name |-> RO_DOT, context_index |-> NumAreas, exact |-> FALSE]}, 0)

\* The client's files: [index, readable, writable, serial_access]
Deployment(index, r, w, sa) ==
  [index |-> index, readable |-> r, writable |-> w, serial_access |-> sa]
AllAreas == [c \in AreaIds |-> TRUE]
NoAreas == [c \in AreaIds |-> FALSE]
OnlyArea0 == [c \in AreaIds |-> c = 0]
Deployments ==
  { Deployment(AreaIndex, AllAreas, NoAreas, "ro"),
    Deployment(AreaIndex, OnlyArea0, NoAreas, "ro"),
    Deployment(AreaIndex, AllAreas, AllAreas, "rw"),
    Deployment(AreaIndex, AllAreas, OnlyArea0, "rw"),
    Deployment(AreaIndex, AllAreas, NoAreas, "none"),
    Deployment(NoRootIndex, AllAreas, AllAreas, "rw"),
    Deployment(BeyondIndex, AllAreas, AllAreas, "rw") }

\* a and ro.a
ApiNames == {<<97>>, RO_DOT \o <<97>>}

InitApi ==
  /\ \E d \in Deployments :
       /\ info_area = d.index
       /\ readable = d.readable
       /\ writable = d.writable
       /\ serial_access = d.serial_access
  /\ areas = [c \in AreaIds |-> NewArea]
  /\ pa_ = [p \in Procs |-> [c \in AreaIds |-> p = "init"]]
  /\ no_access_ = [p \in Procs |-> [c \in AreaIds |-> FALSE]]
  /\ denied = [p \in Procs |-> [c \in AreaIds |-> FALSE]]
  /\ initialized_ = [p \in Procs |-> p = "init"]
  /\ rw_ = [p \in Procs |-> IF p = "init" THEN AreaInitRw ELSE FALSE]
  /\ stored = {}
  /\ added = <<>>
  /\ exhausted = {}
  /\ last = [op |-> "none"]
  /\ route_cfg = <<>>
  /\ route_name = <<>>
  /\ route_result = [done |-> FALSE, index |-> NoIndex]
  /\ serial = [e \in Entries |-> 0]
  /\ value = [e \in Entries |-> BufOf(<<>>)]
  /\ hist = [e \in Entries |-> {}]
  /\ estate = [e \in Entries |-> "free"]
  /\ dirty_backup = BufOf(<<>>)
  /\ gserial = 0
  /\ WriterIdle
  /\ ReaderIdle
  /\ NoWaiters
  /\ SplitIdle
  /\ OpenIdle
  /\ SetIdle
  /\ TrieIdle

NextApi ==
  \/ \E name \in ApiNames : Add("init", name, <<120>>)
  \/ Init("client")
  \/ \E name \in ApiNames, val \in PropValues : Add("client", name, val)
  \/ \E name \in ApiNames : Update("client", name, <<121, 121>>)
  \/ \E name \in ApiNames, prune \in BOOLEAN : Delete("client", name, prune)
  \/ \E name \in ApiNames : Get("client", name)
  \/ \E name \in ApiNames : ReadCallback("client", name)
  \/ Foreach("client")
  \/ \E n \in 0 .. 1 : FindNth("client", n)
  \/ AreaSerial("client")
  \/ \E name \in ApiNames : GetContext("client", name)
  \/ \E old_serial \in 0 .. 1, timed \in BOOLEAN : Wait("client", old_serial, timed)

SpecApi == InitApi /\ [][NextApi]_vars

\* What find and read give for name in the areas as: whether an entry is
\* found, where, and its value and length.
Lookup(as, name) ==
  LET read(c, pi, got) ==
        [found |-> TRUE, at |-> <<c, pi>>, value |-> got.value, ret |-> got.ret]
      found(c, pi) ==
        IF pi = 0 THEN [found |-> FALSE, at |-> <<>>, value |-> <<>>, ret |-> 0]
        ELSE read(c, pi, ReadValue(as[c].info[pi]))
      routed(c) == found(c, IF c = NoContextNode THEN 0 ELSE find(as[c], name))
  IN  routed(AreaOf(name))

\* C3 as stated: once add(name, v) has succeeded, and with no update or
\* delete of the name since, get(name) in a process that may read the area
\* returns v byte for byte and reports the length of v.
C3_AddGetRoundTrip ==
  (/\ last.op = "get"
   /\ last.name \in DOMAIN added
   /\ CanRead(last.proc, AreaOf(last.name)))
  => /\ last.value = added[last.name].value
     /\ last.ret = Len(added[last.name].value)

\* C3 as the code has it: the round trip holds when the name was not stored
\* when add was called and the value is shorter than PROP_VALUE_MAX.
C3_FreshShortAddGetRoundTrip ==
  (/\ last.op = "get"
   /\ last.name \in DOMAIN added
   /\ CanRead(last.proc, AreaOf(last.name))
   /\ added[last.name].fresh
   /\ Len(added[last.name].value) < PROP_VALUE_MAX)
  => /\ last.value = added[last.name].value
     /\ last.ret = Len(added[last.name].value)

\* C3 witness: a get of a two-segment name after its first add returned the
\* value added.
C3_Witness ==
  /\ last.op = "get"
  /\ last.proc = "init"
  /\ last.name = <<97, DOT, 98>>
  /\ last.name \in DOMAIN added
  /\ added[last.name].fresh
  /\ last.found
  /\ last.value = <<120>>
  /\ last.ret = 1

C7_ForeachVisitsStored ==
  (last.op = "foreach" /\ last.ret = 0) =>
    LET v == last.visited
        nameOf(e) == areas[e[1]].info[e[2]].name
    IN  /\ \A i, j \in 1 .. Len(v) : (v[i] = v[j] \/ nameOf(v[i]) = nameOf(v[j])) => i = j
        /\ {nameOf(v[i]) : i \in 1 .. Len(v)}
             = {n \in stored : CanRead(last.proc, AreaOf(n))}

\* C7 witness: three names are stored, one of them in an area the client may
\* not read; the foreach visited the other two.
C7_Witness ==
  /\ last.op = "foreach"
  /\ last.ret = 0
  /\ Cardinality(stored) = 3
  /\ ~readable[1]
  /\ Len(last.visited) = 2

\* C8: nth(k) is the entry of the k-th callback (from 0) of a foreach over
\* the same state, and nothing when k is at least the number of callbacks.
C8_NthIsKthVisit ==
  last.op = "nth" =>
    LET v == ForEach(last.proc)
    IN  last.result = IF last.n < Len(v) THEN v[last.n + 1] ELSE <<>>

\* C8 witness: nth(1) returned the second of three entries.
C8_Witness ==
  /\ last.op = "nth"
  /\ last.n = 1
  /\ Len(ForEach(last.proc)) = 3
  /\ last.result = ForEach(last.proc)[2]


(***************************************************************************)
(* The areas when little room is left.  Each area starts as it is after    *)
(* names were added until room bytes were left and then all deleted with   *)
(* pruning: the trie is down to its root and the bytes stay taken (the     *)
(* wiped nodes and entries are not listed).                                *)
(***************************************************************************)
\* Bytes left in the data region: none; one node; a.bc with its two nodes
\* and entry; abcd with its entry and two more nodes; ro.a with its entry
\* but not the long value.
ArenaRooms == {0, 24, 152, 200, 300}

\* ro.a, a.bc, ab.c and abcd: four names of four bytes
ArenaNames == {RO_DOT \o <<97>>, <<97, DOT, 98, 99>>, <<97, 98, DOT, 99>>, <<97, 98, 99, 100>>}
BigValue == [i \in 1 .. 200 |-> 122]
ArenaValues == {<<120>>, BigValue}

InitArena ==
  /\ \E room \in ArenaRooms :
       areas = [c \in AreaIds |-> [NewArea EXCEPT !.bytes_used_ = pa_data_size_ - room]]
  /\ pa_ = [p \in Procs |-> [c \in AreaIds |-> p = "init"]]
  /\ no_access_ = [p \in Procs |-> [c \in AreaIds |-> FALSE]]
  /\ denied = [p \in Procs |-> [c \in AreaIds |-> FALSE]]
  /\ readable = AllAreas
  /\ initialized_ = [p \in Procs |-> TRUE]
  /\ rw_ = [p \in Procs |-> IF p = "init" THEN AreaInitRw ELSE FALSE]
  /\ writable = NoAreas
  /\ serial_access = "ro"
  /\ stored = {}
  /\ added = <<>>
  /\ exhausted = {}
  /\ last = [op |-> "none"]
  /\ info_area = AreaIndex
  /\ route_cfg = <<>>
  /\ route_name = <<>>
  /\ route_result = [done |-> FALSE, index |-> NoIndex]
  /\ serial = [e \in Entries |-> 0]
  /\ value = [e \in Entries |-> BufOf(<<>>)]
  /\ hist = [e \in Entries |-> {}]
  /\ estate = [e \in Entries |-> "free"]
  /\ dirty_backup = BufOf(<<>>)
  /\ gserial = 0
  /\ WriterIdle
  /\ ReaderIdle
  /\ NoWaiters
  /\ SplitIdle
  /\ OpenIdle
  /\ SetIdle
  /\ TrieIdle

NextArena ==
  \/ \E name \in ArenaNames, val \in ArenaValues : Add("init", name, val)
  \/ \E name \in ArenaNames : Update("init", name, <<121, 121>>)
  \/ \E name \in ArenaNames, prune \in BOOLEAN : Delete("init", name, prune)
  \/ \E name \in ArenaNames : Get("init", name)
  \/ Foreach("init")

SpecArena == InitArena /\ [][NextArena]_vars

\* C13 as stated: once an add of a new name has failed for want of room,
\* every later add of a name that is not stored, has the same length and
\* goes to the same area fails too; and a failing add leaves every name
\* found as before, with the value and length read before.
C13_ExhaustedStaysExhausted ==
  [][last'.op = "add" =>
       /\ (/\ ~Lookup(areas, last'.name).found
           /\ \E e \in exhausted : e.area = AreaOf(last'.name) /\ e.namelen = Len(last'.name))
          => last'.ret = -1
       /\ last'.ret = -1 =>
            \A n \in ArenaNames : Lookup(areas', n) = Lookup(areas, n)]_vars

\* C13 as the code has it: the later add fails when its value is also as
\* long as the value of the add that failed.
C13_ExhaustedForSameLengths ==
  [][last'.op = "add" =>
       /\ (/\ ~Lookup(areas, last'.name).found
           /\ \E e \in exhausted : /\ e.area = AreaOf(last'.name)
                                   /\ e.namelen = Len(last'.name)
                                   /\ e.valuelen = Len(last'.value))
          => last'.ret = -1
       /\ last'.ret = -1 =>
            \A n \in ArenaNames : Lookup(areas', n) = Lookup(areas, n)]_vars

\* C13 witness: abcd is stored, the only successful call so far; the area
\* holds the node "a" left by a failed add of a.bc; now the add of ab.c, new
\* and of the same length, has failed too, and abcd is read with its value.
C13_Witness ==
  /\ last.op = "add"
  /\ last.ret = -1
  /\ last.name = <<97, 98, DOT, 99>>
  /\ gserial = 1
  /\ stored = {<<97, 98, 99, 100>>}
  /\ [area |-> 0, namelen |-> 4, valuelen |-> 1] \in exhausted
  /\ \E off \in DOMAIN areas[0].bt : areas[0].bt[off].name = <<97>>
  /\ Lookup(areas, <<97, 98, 99, 100>>).value = <<120>>

\* The allocator's invariant of the area pa: bytes_used_ is a multiple of 4
\* within the data region, and every link of every node is 0 or below it.
Links == {"left", "right", "children", "prop"}
WithinBytesUsed(pa) ==
  /\ pa.bytes_used_ % 4 = 0
  /\ pa.bytes_used_ <= pa_data_size_
  /\ \A off \in DOMAIN pa.bt : \A link \in Links :
       pa.bt[off][link] # 0 => pa.bt[off][link] < pa.bytes_used_

\* C17: in every state of an area bytes_used is a multiple of 4, does not
\* exceed the size of the data region, and is above every non-zero offset
\* stored in a trie node; and no operation (a failed add and a delete with
\* or without prune included) lowers it.
C17_BytesUsedInvariant ==
  [][\A c \in AreaIds :
       /\ WithinBytesUsed(areas[c])
       /\ WithinBytesUsed(areas'[c])
       /\ areas'[c].bytes_used_ >= areas[c].bytes_used_]_vars

\* C17 witness: a.bc was added and took the last byte of the data region,
\* the add of abcd failed, and a.bc has been deleted with pruning: the area
\* is still full.
C17_Witness ==
  /\ last.op = "delete"
  /\ last.ret = 0
  /\ last.prune
  /\ last.name = <<97, DOT, 98, 99>>
  /\ [area |-> 0, namelen |-> 4, valuelen |-> 1] \in exhausted
  /\ areas[0].bytes_used_ = pa_data_size_
  /\ areas[0].bt[0].children = 0

(***************************************************************************)
(* Claims about the calls of the client (SpecApi)                          *)
(***************************************************************************)
\* Routing the name gives no context: the index yields ~0u or an index that
\* is not below the number of contexts.
YieldsNoContext(name) ==
  LET index == GetPropertyInfoIndexes(info_area, name).context
  IN  index = NoIndex \/ index >= NumAreas

\* C11: when routing a name yields no context, find returns nothing, get
\* returns length 0 and an empty value, add and delete return failure, and
\* the call changes no area and not the global serial.
C11_NoContextDenied ==
  [][(last'.op \in {"get", "add", "delete"} /\ YieldsNoContext(last'.name))
     => /\ last'.op = "get" =>
             ~last'.found /\ last'.ret = 0 /\ last'.value = <<>>
        /\ last'.op \in {"add", "delete"} => last'.ret = -1
        /\ areas' = areas
        /\ gserial' = gserial]_vars

\* C11 witness: the initialised client, with write access, asked to add a
\* name that has no context in an index without root label; area 1 holds a
\* property by then.
C11_Witness ==
  /\ info_area = NoRootIndex
  /\ initialized_["client"]
  /\ rw_["client"]
  /\ last.op = "add"
  /\ last.proc = "client"
  /\ last.name = <<97>>
  /\ last.ret = -1
  /\ stored # {}


(***************************************************************************)
(* Claims about long values (SpecArea)                                     *)
(***************************************************************************)
\* The entry found under name in the areas as holds v in long form: the
\* long flag is set and the bytes at long_offset from the entry are v.
LongStored(as, name, v) ==
  LET held(c, pi) ==
        /\ pi # 0
        /\ is_long(as[c].info[pi])
        /\ as[c].blob[pi + as[c].info[pi].long_offset] = v
  IN  held(AreaOf(name), find(as[AreaOf(name)], name))

\* C12 as stated: add(name, v) with v longer than MAX_VALUE_LEN (91)
\* succeeds and stores v in long form when name begins with "ro.", and
\* fails leaving the areas and the global serial as they were otherwise.
C12_LongValueAdd ==
  [][(last'.op = "add" /\ Len(last'.value) >= PROP_VALUE_MAX)
     => IF Strncmp(last'.name, RO_DOT, 3) = 0
          THEN last'.ret = 0 /\ LongStored(areas', last'.name, last'.value)
          ELSE last'.ret = -1 /\ areas' = areas /\ gserial' = gserial]_vars

\* C12 as the code has it: the long form is stored when, besides, the name
\* is not stored when add is called; an add of a stored name succeeds and
\* leaves the areas as they were.
C12_LongValueAddOfNewName ==
  [][(last'.op = "add" /\ Len(last'.value) >= PROP_VALUE_MAX)
     => IF Strncmp(last'.name, RO_DOT, 3) = 0
          THEN /\ last'.ret = 0
               /\ IF Lookup(areas, last'.name).found
                    THEN areas' = areas
                    ELSE LongStored(areas', last'.name, last'.value)
          ELSE last'.ret = -1 /\ areas' = areas /\ gserial' = gserial]_vars

\* C12 witness: the first add of ro.a, with a value of 92 bytes, succeeded
\* and the value is stored in long form.
C12_Witness ==
  /\ last.op = "add"
  /\ last.name = RO_DOT \o <<97>>
  /\ last.value = LongValue
  /\ last.ret = 0
  /\ added[last.name].fresh
  /\ LongStored(areas, last.name, LongValue)


\* The outcome with which a call reports failure or "not found".
ReportsFailure(call) ==
  CASE call.op = "get" -> ~call.found /\ call.ret = 0 /\ call.value = <<>>
    [] call.op \in {"add", "update", "delete", "foreach", "serial"} -> call.ret = -1
    [] call.op = "nth" -> call.result = <<>>
    [] call.op = "context" -> call.ret = NoIndex
    [] call.op = "wait" -> call.ret = FALSE

\* C14: a call of find / get, add, update, delete, foreach, nth, the
\* global-serial query, the context query or wait on the global serial, made
\* by a process in which Init has not succeeded, reports failure or "not
\* found" and changes no state.
C14_FailsFastBeforeInit ==
  [][(/\ last'.op \in {"get", "add", "update", "delete", "foreach", "nth", "serial",
                       "context", "wait"}
      /\ ~initialized_[last'.proc])
     => /\ ReportsFailure(last')
        /\ UNCHANGED <<areas, gserial, pa_, no_access_, initialized_, rw_, stored>>]_vars

\* C14 case reached: before Init, the client waited on the global serial
\* without timeout while it was equal to old_serial; the call returned true
\* at once and wrote no serial.
C14_Witness ==
  /\ ~initialized_["client"]
  /\ last.op = "wait"
  /\ last.proc = "client"
  /\ last.ret = TRUE
  /\ last.new_serial = NotWritten


\* C15: add, update and delete return failure and leave the areas and the
\* global serial as they were whenever the area that owns the name is not
\* mapped read-write in the calling process.
C15_WritersNeedReadWriteArea ==
  [][(/\ last'.op \in {"add", "update", "delete"}
      /\ ~YieldsNoContext(last'.name)
      /\ ~CanWrite(last'.proc, AreaOf(last'.name)))
     => /\ last'.ret = -1
        /\ areas' = areas
        /\ gserial' = gserial]_vars

\* C15 case reached: properties_serial is writable for the client and the
\* file of area 1 is not; the client's add of ro.a, which init had stored,
\* returned success and the global serial moved.
C15_Witness ==
  /\ rw_["client"]
  /\ ~writable[1]
  /\ last.op = "add"
  /\ last.proc = "client"
  /\ last.name = RO_DOT \o <<97>>
  /\ last.ret = 0
  /\ gserial = 2


\* C16: find, get, read, read_with_callback, foreach and nth leave every
\* area as it was (trie links, bytes_used, names, serials, values, the dirty
\* backup) and the global serial too.
C16_ReadersChangeNothing ==
  [][last'.op \in {"get", "read_callback", "foreach", "nth"}
     => areas' = areas /\ gserial' = gserial]_vars

\* C16 witness: the client has looked up a, for which the area has no node,
\* and has mapped both areas by its lookups; ro.a is stored.
C16_Witness ==
  /\ last.op = "get"
  /\ last.proc = "client"
  /\ ~last.found
  /\ last.name = <<97>>
  /\ pa_["client"][1]
  /\ pa_["client"][0]
  /\ stored = {RO_DOT \o <<97>>}

\* The link of a node holds a valid offset in the area pa: a constructed
\* node, or for prop a constructed entry, below bytes_used_.
ValidLink(pa, link, off) ==
  /\ off # 0
  /\ off < pa.bytes_used_
  /\ IF link = "prop" THEN off \in DOMAIN pa.info /\ pa.info[off] # ZeroInfo
     ELSE off \in DOMAIN pa.bt /\ pa.bt[off] # ZeroBt

\* The links that a step changes: <<area, node, link>>
ChangedLinks ==
  {x \in UNION {{<<c, off, link>> : off \in DOMAIN areas[c].bt, link \in Links} : c \in AreaIds} :
     areas'[x[1]].bt[x[2]][x[3]] # areas[x[1]].bt[x[2]][x[3]]}

\* C18 as stated: a link of a node changes only from 0 to a valid offset,
\* or back to 0 in the prune pass (a delete with prune).
C18_LinksOnlyGrow ==
  [][\A x \in ChangedLinks :
       \/ /\ areas[x[1]].bt[x[2]][x[3]] = 0
          /\ ValidLink(areas'[x[1]], x[3], areas'[x[1]].bt[x[2]][x[3]])
       \/ /\ areas'[x[1]].bt[x[2]][x[3]] = 0
          /\ last'.op = "delete" /\ last'.ret = 0 /\ last'.prune]_vars

\* C18 as the code has it: every successful delete sets the prop link of
\* the name's node back to 0, pruning or not; left, right and children go
\* back to 0 only in the prune pass.
C18_LinksClearedByDelete ==
  [][\A x \in ChangedLinks :
       \/ /\ areas[x[1]].bt[x[2]][x[3]] = 0
          /\ ValidLink(areas'[x[1]], x[3], areas'[x[1]].bt[x[2]][x[3]])
       \/ /\ areas'[x[1]].bt[x[2]][x[3]] = 0
          /\ last'.op = "delete" /\ last'.ret = 0
          /\ last'.prune \/ x[3] = "prop"]_vars

\* C18 witness: a.b has been deleted without pruning: its node b is still
\* linked below a, holds its name, and has no prop.
C18_Witness ==
  /\ last.op = "delete"
  /\ last.ret = 0
  /\ ~last.prune
  /\ last.name = <<97, DOT, 98>>
  /\ \E off \in DOMAIN areas[0].bt :
       /\ areas[0].bt[off].name = <<98>>
       /\ areas[0].bt[off].prop = 0
       /\ \E up \in DOMAIN areas[0].bt : areas[0].bt[up].children = off


(***************************************************************************)
(* Names with an empty segment                                             *)
(***************************************************************************)
\* a, b.c, and the names .a, a. and b..c
SegmentNames ==
  {<<97>>, <<98, DOT, 99>>, <<DOT, 97>>, <<97, DOT>>, <<98, DOT, DOT, 99>>}

NextSegment ==
  \/ \E name \in SegmentNames : Add("init", name, <<120>>)
  \/ \E name \in SegmentNames, prune \in BOOLEAN : Delete("init", name, prune)
  \/ \E name \in SegmentNames : Get("client", name)
  \/ Foreach("client")

SpecSegment == InitArea /\ [][NextSegment]_vars

\* C19: for a name with an empty segment, find returns nothing, and add
\* returns failure and creates no entry: find (of every name) and foreach
\* observe after the failed add what they observed before it.
C19_EmptySegmentRejected ==
  [][/\ \A name \in SegmentNames :
          HasEmptySegment(name) => ~Lookup(areas', name).found
     /\ (last'.op = "get" /\ HasEmptySegment(last'.name))
          => ~last'.found /\ last'.ret = 0 /\ last'.value = <<>>
     /\ (last'.op = "add" /\ HasEmptySegment(last'.name))
          => /\ last'.ret = -1
             /\ stored' = stored
             /\ \A c \in AreaIds : areas'[c].info = areas[c].info
             /\ \A name \in SegmentNames : Lookup(areas', name) = Lookup(areas, name)
             /\ \A p \in Procs : ForEach(p)' = ForEach(p)]_vars

\* C19 witness: with a and b.c stored, the add of b..c failed; it found the
\* node b and stopped at the empty segment.
C19_Witness ==
  /\ last.op = "add"
  /\ last.name = <<98, DOT, DOT, 99>>
  /\ last.ret = -1
  /\ stored = {<<97>>, <<98, DOT, 99>>}
  /\ Len(ForEach("init")) = 2


(***************************************************************************)
(* Reader threads of the client making their first access to one context  *)
(* node: ContextNode::CheckAccessAndOpen and ContextNode::Open, one step   *)
(* per access to the node's shared fields.                                 *)
(***************************************************************************)
MaxThreads == 3
Threads == 1 .. MaxThreads

\* The context the threads open
OpenContext == 1

InitOpen ==
  /\ opc = [t \in Threads |-> "start"]
  /\ lock_ = NoThread
  /\ mapping = 0
  /\ maps = 0
  /\ used = [t \in Threads |-> NotReturned]
  /\ areas = [c \in AreaIds |-> NewArea]
  /\ pa_ = [p \in Procs |-> [c \in AreaIds |-> p = "init"]]
  /\ no_access_ = [p \in Procs |-> [c \in AreaIds |-> FALSE]]
  /\ denied = [p \in Procs |-> [c \in AreaIds |-> FALSE]]
  /\ readable \in {AllAreas, OnlyArea0}
  /\ initialized_ = [p \in Procs |-> TRUE]
  /\ rw_ = [p \in Procs |-> IF p = "init" THEN AreaInitRw ELSE FALSE]
  /\ writable = NoAreas
  /\ serial_access = "ro"
  /\ stored = {}
  /\ added = <<>>
  /\ exhausted = {}
  /\ last = [op |-> "none"]
  /\ info_area = AreaIndex
  /\ route_cfg = <<>>
  /\ route_name = <<>>
  /\ route_result = [done |-> FALSE, index |-> NoIndex]
  /\ serial = [e \in Entries |-> 0]
  /\ value = [e \in Entries |-> BufOf(<<>>)]
  /\ hist = [e \in Entries |-> {}]
  /\ estate = [e \in Entries |-> "free"]
  /\ dirty_backup = BufOf(<<>>)
  /\ gserial = 0
  /\ WriterIdle
  /\ ReaderIdle
  /\ NoWaiters
  /\ SplitIdle
  /\ SetIdle
  /\ TrieIdle

\* What a step of a thread leaves alone besides the node and the threads.
OpenFrame ==
  UNCHANGED <<areas, readable, initialized_, rw_, writable, serial_access, stored, added,
              denied, exhausted, last, protoVars, writerVars, readerVars, waiterVars, routeVars,
              splitVars, setVars, trieVars>>

\* CheckAccessAndOpen, `if (!pa_ && !no_access_)`: both fields are read
\* without the lock while other threads may be storing into them, so the
\* thread sees the value before the store or the value after it.
NodeCheck(t) ==
  /\ opc[t] = "start"
  /\ \E seen_pa \in {0, mapping}, seen_no_access \in {FALSE, no_access_["client"][OpenContext]} :
       opc' = [opc EXCEPT ![t] = IF seen_pa = 0 /\ ~seen_no_access THEN "access" ELSE "return"]
  /\ UNCHANGED <<lock_, mapping, maps, used, pa_, no_access_>>
  /\ OpenFrame

\* CheckAccessAndOpen, `!CheckAccess()`
NodeCheckAccess(t) ==
  /\ opc[t] = "access"
  /\ opc' = [opc EXCEPT ![t] = IF CanRead("client", OpenContext) THEN "lock" ELSE "no_access"]
  /\ UNCHANGED <<lock_, mapping, maps, used, pa_, no_access_>>
  /\ OpenFrame

\* Open, `lock_.lock()`
NodeLock(t) ==
  /\ opc[t] = "lock"
  /\ lock_ = NoThread
  /\ lock_' = t
  /\ opc' = [opc EXCEPT ![t] = "locked"]
  /\ UNCHANGED <<mapping, maps, used, pa_, no_access_>>
  /\ OpenFrame

\* An Open that maps without looking at pa_ first.
NodeOpen_Unchecked(t) ==
  /\ opc[t] = "locked"
  /\ opc' = [opc EXCEPT ![t] = "map"]
  /\ UNCHANGED <<lock_, mapping, maps, used, pa_, no_access_>>
  /\ OpenFrame

\* Open, `if (pa_) { lock_.unlock(); return true; }`
NodeOpen(t) ==
  /\ opc[t] = "locked"
  /\ IF mapping # 0
       THEN /\ lock_' = NoThread
            /\ opc' = [opc EXCEPT ![t] = "return"]
       ELSE /\ opc' = [opc EXCEPT ![t] = "map"]
            /\ UNCHANGED lock_
  /\ UNCHANGED <<mapping, maps, used, pa_, no_access_>>
  /\ OpenFrame

\* Open, `pa_ = prop_area::map_prop_area(filename, nullptr)`: the file passed
\* CheckAccess, the mapping is made and stored.
NodeMap(t) ==
  /\ opc[t] = "map"
  /\ maps' = maps + 1
  /\ mapping' = maps + 1
  /\ pa_' = [pa_ EXCEPT !["client"][OpenContext] = TRUE]
  /\ opc' = [opc EXCEPT ![t] = "unlock"]
  /\ UNCHANGED <<lock_, used, no_access_>>
  /\ OpenFrame

\* Open, `lock_.unlock(); return pa_;`
NodeUnlock(t) ==
  /\ opc[t] = "unlock"
  /\ lock_' = NoThread
  /\ opc' = [opc EXCEPT ![t] = IF mapping # 0 THEN "return" ELSE "no_access"]
  /\ UNCHANGED <<mapping, maps, used, pa_, no_access_>>
  /\ OpenFrame

\* CheckAccessAndOpen, `no_access_ = true`
NodeNoAccess(t) ==
  /\ opc[t] = "no_access"
  /\ no_access_' = [no_access_ EXCEPT !["client"][OpenContext] = TRUE]
  /\ opc' = [opc EXCEPT ![t] = "return"]
  /\ UNCHANGED <<lock_, mapping, maps, used, pa_>>
  /\ OpenFrame

\* CheckAccessAndOpen, `return pa_`: the area the thread goes on with.  The
\* thread has seen the pointer set, or has been through the lock or through
\* a CheckAccess that failed.
NodeReturn(t) ==
  /\ opc[t] = "return"
  /\ used' = [used EXCEPT ![t] = mapping]
  /\ opc' = [opc EXCEPT ![t] = "done"]
  /\ UNCHANGED <<lock_, mapping, maps, pa_, no_access_>>
  /\ OpenFrame

NextOpen ==
  \E t \in Threads :
    \/ NodeCheck(t)
    \/ NodeCheckAccess(t)
    \/ NodeLock(t)
    \/ NodeOpen(t)
    \/ NodeMap(t)
    \/ NodeUnlock(t)
    \/ NodeNoAccess(t)
    \/ NodeReturn(t)

SpecOpen == InitOpen /\ [][NextOpen]_vars

\* C20: when several threads make their first access to a context that is
\* not mapped yet, at most one mapping of its file is ever made, the one
\* installed in the node is never replaced, no mapping exists besides the
\* installed one, and every thread that has returned from a readable
\* context uses that mapping.
C20_MappedAtMostOnce ==
  [][/\ maps' <= 1
     /\ mapping # 0 => mapping' = mapping
     /\ maps' = (IF mapping' = 0 THEN 0 ELSE 1)
     /\ pa_'["client"][OpenContext] = (mapping' # 0)
     /\ \A t \in Threads :
          (opc'[t] = "done" /\ CanRead("client", OpenContext))
            => used'[t] = mapping' /\ mapping' # 0]_vars

\* C20 witness: thread 1 has mapped the file and still holds the lock,
\* thread 2 found the node unmapped and waits for the lock, thread 3 has
\* returned with the mapping of thread 1.
C20_Witness ==
  /\ lock_ = 1
  /\ opc[1] = "unlock"
  /\ opc[2] = "lock"
  /\ opc[3] = "done"
  /\ maps = 1
  /\ used[3] = mapping
  /\ mapping # 0


(***************************************************************************)
(* The client's access to the contexts while the readability of their      *)
(* files changes: foreach, point lookups and reset_access.                 *)
(***************************************************************************)
\* a (context 0) and ro.a (context 1)
AccessNames == {<<97>>, RO_DOT \o <<97>>}

\* The outcome of access(filename, R_OK) and of opening the file of context
\* c changes for the client.
SetReadable(c, b) ==
  /\ readable[c] # b
  /\ readable' = [readable EXCEPT ![c] = b]
  /\ last' = [op |-> "relabel", context |-> c, readable |-> b]
  /\ UNCHANGED <<areas, pa_, no_access_, initialized_, rw_, writable, serial_access, stored,
                 added, denied, exhausted, protoVars, writerVars, readerVars, waiterVars,
                 routeVars, splitVars, openVars, setVars, trieVars>>

InitAccess ==
  /\ InitArea
  /\ readable = OnlyArea0

NextAccess ==
  \/ \E name \in AccessNames : Add("init", name, <<120>>)
  \/ \E c \in AreaIds, b \in BOOLEAN : SetReadable(c, b)
  \/ \E name \in AccessNames : Get("client", name)
  \/ Foreach("client")
  \/ Init("client")

SpecAccess == InitAccess /\ [][NextAccess]_vars

\* The contexts of the entries a foreach visited
VisitedContexts(visited) == {visited[i][1] : i \in 1 .. Len(visited)}

\* C21 as stated: once a foreach of the client has found a context
\* unreadable, and until its next reset_access, every foreach of the client
\* visits no entry of that context, whatever lookups were made in between.
C21_DenialRemembered ==
  [][(last'.op = "foreach" /\ last'.proc = "client")
       => \A c \in AreaIds :
            denied["client"][c] => c \notin VisitedContexts(last'.visited)]_vars

\* C21 as the code has it: the foreach skips the context as long as no point
\* lookup has mapped it since the denial.
C21_DenialRememberedWhileUnmapped ==
  [][(last'.op = "foreach" /\ last'.proc = "client")
       => \A c \in AreaIds :
            (denied["client"][c] /\ ~pa_["client"][c])
              => c \notin VisitedContexts(last'.visited)]_vars

\* C21 witness: a foreach found context 1 unreadable; its file is readable
\* now and holds ro.a; the foreach just made visited only a.
C21_Witness ==
  /\ last.op = "foreach"
  /\ last.proc = "client"
  /\ denied["client"][1]
  /\ readable[1]
  /\ ~pa_["client"][1]
  /\ stored = AccessNames
  /\ VisitedContexts(last.visited) = {0}

\* C22: a get of the client on a name whose context is not mapped calls Open
\* whether or not a denial is recorded in the node, and gets the area exactly
\* when the file is readable at that moment.
C22_LookupAlwaysOpens ==
  [][(/\ last'.op = "get"
      /\ last'.proc = "client"
      /\ initialized_["client"]
      /\ AreaOf(last'.name) # NoContextNode
      /\ ~pa_["client"][AreaOf(last'.name)])
       => /\ last'.opens
          /\ pa_'["client"][AreaOf(last'.name)] = readable[AreaOf(last'.name)]
          /\ last'.found = (readable[AreaOf(last'.name)] /\ last'.name \in stored)]_vars

\* C22 witness: a foreach recorded a denial for context 1, the file became
\* readable, and the get of ro.a opened the area and found the entry.
C22_Witness ==
  /\ last.op = "get"
  /\ last.name = RO_DOT \o <<97>>
  /\ last.opens
  /\ last.found
  /\ denied["client"][1]
  /\ no_access_["client"][1]

\* C23: reset_access unmaps every context that is unreadable now and marks
\* it denied, and clears the denial of every context that is readable now; a
\* foreach made next visits the entries of exactly the readable contexts.
C23_ResetAccessRechecks ==
  [][(last'.op = "init" /\ last'.proc = "client" /\ initialized_["client"])
       => /\ \A c \in AreaIds :
               IF readable[c]
                 THEN ~no_access_'["client"][c] /\ pa_'["client"][c] = pa_["client"][c]
                 ELSE no_access_'["client"][c] /\ ~pa_'["client"][c]
          /\ VisitedContexts(ForEach("client")')
               = {AreaOf(name) : name \in {n \in stored : readable[AreaOf(n)]}}]_vars

\* C23 witness: the reset_access unmapped context 0, whose file had become
\* unreadable, and cleared the denial of context 1, whose file had become
\* readable; both hold a property.
C23_Witness ==
  /\ last.op = "init"
  /\ last.proc = "client"
  /\ last.unmapped = {0}
  /\ last.cleared = {1}
  /\ stored = AccessNames


(***************************************************************************)
(* __system_property_set: the client side of the property service.  The    *)
(* socket calls are the environment's: each call of Set draws their        *)
(* outcomes.                                                               *)
(***************************************************************************)
PROP_NAME_MAX == 32
PROP_SUCCESS == 0
kProtocolVersion1 == 1
kProtocolVersion2 == 2
\* sizeof(prop_msg): cmd, name[PROP_NAME_MAX], value[PROP_VALUE_MAX]
SizeofPropMsg == 4 + PROP_NAME_MAX + PROP_VALUE_MAX
ECONNREFUSED == 111

\* uint32_t values as <<high 16 bits, low 16 bits>>
Half == 65536
Mul10Add(acc, digit) ==
  LET low(lo) == <<(acc[1] * 10 + lo \div Half) % Half, lo % Half>>
  IN  low(acc[2] * 10 + digit)

\* (uint32_t)(-x)
Neg32(acc) ==
  IF acc[2] = 0 THEN <<(Half - acc[1]) % Half, 0>>
  ELSE <<Half - 1 - acc[1], Half - acc[2]>>

IsSpace(c) == c = 32 \/ c \in 9 .. 13
IsDigit(c) == c \in 48 .. 57

\* The text after the leading white space
RECURSIVE SkipSpaces(_)
SkipSpaces(s) == IF s # <<>> /\ IsSpace(s[1]) THEN SkipSpaces(Tail(s)) ELSE s

\* The leading run of digits
RECURSIVE DigitRun(_)
DigitRun(s) == IF s # <<>> /\ IsDigit(s[1]) THEN <<s[1]>> \o DigitRun(Tail(s)) ELSE <<>>

\* The sign and the digits atoll converts: [negative, digits]
Numeral(text) ==
  LET signed(s) ==
        IF s # <<>> /\ s[1] \in {43, 45}
          THEN [negative |-> s[1] = 45, digits |-> DigitRun(Tail(s))]
          ELSE [negative |-> FALSE, digits |-> DigitRun(s)]
  IN  signed(SkipSpaces(text))

RECURSIVE Accumulate(_, _)
Accumulate(digits, acc) ==
  IF digits = <<>> THEN acc
  ELSE Accumulate(Tail(digits), Mul10Add(acc, digits[1] - 48))

\* static_cast<uint32_t>(atoll(value)), for numerals within long long
AtollAsUint32(text) ==
  LET cut(n, magnitude) == IF n.negative THEN Neg32(magnitude) ELSE magnitude
      converted(n) == cut(n, Accumulate(n.digits, <<0, 0>>))
  IN  converted(Numeral(text))

\* detect_protocol_version: the version it stores
detect_protocol_version ==
  LET chosen(version) ==
        IF version[1] > 0 \/ version[2] >= kProtocolVersion2
          THEN kProtocolVersion2 ELSE kProtocolVersion1
  IN  IF version_prop = NoProp \/ Len(version_prop) = 0 THEN kProtocolVersion1
      ELSE chosen(AtollAsUint32(version_prop))

\* A send that takes the end of the poll without a close as a failure.
send_prop_msg_Strict(env) ==
  IF env.connect # 0
    THEN [ret |-> env.connect, connected |-> FALSE, sent |-> "none", reply |-> "none"]
  ELSE IF env.sent # SizeofPropMsg
    THEN [ret |-> -1, connected |-> TRUE, sent |-> "short", reply |-> "none"]
  ELSE [ret |-> IF env.poll = "POLLHUP" THEN 0 ELSE -1,
        connected |-> TRUE, sent |-> "full", reply |-> env.poll]

\* send_prop_msg: [ret, connected, sent, reply]
send_prop_msg(env) ==
  IF env.connect # 0
    THEN [ret |-> env.connect, connected |-> FALSE, sent |-> "none", reply |-> "none"]
  ELSE IF env.sent # SizeofPropMsg
    THEN [ret |-> -1, connected |-> TRUE, sent |-> "short", reply |-> "none"]
  ELSE [ret |-> 0, connected |-> TRUE, sent |-> "full", reply |-> env.poll]

\* The version 2 exchange of __system_property_set: [ret, connected, sent, reply]
SendSetprop2(env) ==
  IF env.connect # 0
    THEN [ret |-> -1, connected |-> FALSE, sent |-> "none", reply |-> "none"]
  ELSE IF ~env.writev
    THEN [ret |-> -1, connected |-> TRUE, sent |-> "short", reply |-> "none"]
  ELSE IF ~env.recv
    THEN [ret |-> -1, connected |-> TRUE, sent |-> "full", reply |-> "none"]
  ELSE [ret |-> IF env.result # PROP_SUCCESS THEN -1 ELSE 0,
        connected |-> TRUE, sent |-> "full",
        reply |-> IF env.result # PROP_SUCCESS THEN "error" ELSE "success"]

NoKey == <<-1>>
NoValue == <<-1>>

\* What the socket calls of one Set may give
SetEnvs ==
  [connect : {0, ECONNREFUSED},
   sent    : {SizeofPropMsg, SizeofPropMsg \div 2, -1},
   poll    : {"POLLHUP", "POLLERR", "timeout", "error"},
   writev  : BOOLEAN,
   recv    : BOOLEAN,
   result  : {PROP_SUCCESS, 1}]

\* What the calls of the property service client leave alone besides their
\* own variables.
SetFrame ==
  UNCHANGED <<areas, pa_, no_access_, readable, initialized_, rw_, writable, serial_access,
              stored, added, denied, exhausted, protoVars, writerVars, readerVars,
              waiterVars, routeVars, splitVars, openVars, trieVars>>

\* __system_property_set(key, value), the socket calls giving env
Set(key, val, env) ==
  LET done(version, r) ==
        /\ g_propservice_protocol_version' = version
        /\ last' = [op |-> "set", key |-> key, value |-> val, version |-> version,
                    detected |-> g_propservice_protocol_version = 0,
                    ret |-> r.ret, connected |-> r.connected, sent |-> r.sent,
                    reply |-> r.reply]
      refused == [ret |-> -1, connected |-> FALSE, sent |-> "none", reply |-> "none"]
      with(version, v) ==
        IF version = kProtocolVersion1
          THEN IF Len(key) >= PROP_NAME_MAX \/ Len(v) >= PROP_VALUE_MAX
                 THEN done(version, refused)
                 ELSE done(version, send_prop_msg(env))
          ELSE IF Len(v) >= PROP_VALUE_MAX /\ ~StartsWith(key, RO_DOT)
                 THEN done(version, refused)
                 ELSE done(version, SendSetprop2(env))
  IN  /\ IF key = NoKey
           THEN /\ last' = [op |-> "set", key |-> key, value |-> val, version |-> 0,
                            detected |-> FALSE, ret |-> -1, connected |-> FALSE,
                            sent |-> "none", reply |-> "none"]
                /\ UNCHANGED g_propservice_protocol_version
           ELSE with(IF g_propservice_protocol_version = 0 THEN detect_protocol_version
                     ELSE g_propservice_protocol_version,
                     IF val = NoValue THEN <<>> ELSE val)
      /\ UNCHANGED version_prop
      /\ SetFrame

\* The value of ro.property_service.version changes (or the property is set
\* for the first time).
SetVersionProperty(v) ==
  /\ version_prop # v
  /\ version_prop' = v
  /\ last' = [op |-> "version", value |-> v]
  /\ UNCHANGED g_propservice_protocol_version
  /\ SetFrame

\* "", 0, 1, 2, 3, -1, 4294967296 (2^32), " +2" and x
VersionValues ==
  {<<>>, <<48>>, <<49>>, <<50>>, <<51>>, <<45, 49>>,
   <<52, 50, 57, 52, 57, 54, 55, 50, 57, 54>>, <<32, 43, 50>>, <<120>>}

\* a, ro.a and a name of PROP_NAME_MAX bytes
SetKeys == {NoKey, <<97>>, RO_DOT \o <<97>>, [i \in 1 .. PROP_NAME_MAX |-> 97]}
SetValues == {NoValue, <<120>>, LongValue}

InitSet ==
  /\ g_propservice_protocol_version = 0
  /\ version_prop \in {NoProp} \cup VersionValues
  /\ TrieIdle
  /\ RouteIdle
  /\ SplitIdle
  /\ AreaIdle
  /\ OpenIdle
  /\ serial = [e \in Entries |-> 0]
  /\ value = [e \in Entries |-> BufOf(<<>>)]
  /\ hist = [e \in Entries |-> {}]
  /\ estate = [e \in Entries |-> "free"]
  /\ dirty_backup = BufOf(<<>>)
  /\ gserial = 0
  /\ WriterIdle
  /\ ReaderIdle
  /\ NoWaiters

NextSet ==
  \/ \E key \in SetKeys, val \in SetValues, env \in SetEnvs : Set(key, val, env)
  \/ \E v \in {NoProp} \cup VersionValues : SetVersionProperty(v)

SpecSet == InitSet /\ [][NextSet]_vars

\* The number the text denotes is at least 2: it is not negative, and its
\* digits without the leading zeros are two or more, or one that is 2 to 9.
RECURSIVE StripZeros(_)
StripZeros(digits) ==
  IF digits # <<>> /\ digits[1] = 48 THEN StripZeros(Tail(digits)) ELSE digits

NumericAtLeast2(text) ==
  LET big(d) == Len(d) >= 2 \/ (Len(d) = 1 /\ d[1] >= 50)
  IN  ~Numeral(text).negative /\ big(StripZeros(Numeral(text).digits))

\* C24: the first set call of the process selects version 2 if
\* ro.property_service.version is set and its numeric value is at least 2,
\* else version 1; every later set call uses the version selected then,
\* whatever the property has become.
C24_VersionSelectedOnce ==
  [][(last'.op = "set" /\ last'.key # NoKey)
       => /\ g_propservice_protocol_version = 0
               => last'.version = IF version_prop # NoProp /\ NumericAtLeast2(version_prop)
                                    THEN kProtocolVersion2 ELSE kProtocolVersion1
          /\ g_propservice_protocol_version # 0
               => last'.version = g_propservice_protocol_version
          /\ g_propservice_protocol_version' = last'.version]_vars

\* C24 witness: the first set call of the process found the version property
\* at -1 and selected version 2.
C24_Witness ==
  /\ last.op = "set"
  /\ last.detected
  /\ version_prop = <<45, 49>>
  /\ last.version = kProtocolVersion2

\* C25: under version 1, a set whose whole message was sent returns 0,
\* whether the daemon closed the connection or the poll ended without a
\* close; it returns a failure value only when the connection could not be
\* made or the message was not sent in full.
C25_V1TimeoutIsSuccess ==
  [][(last'.op = "set" /\ last'.version = kProtocolVersion1)
       => /\ last'.sent = "full" => last'.ret = 0
          /\ last'.ret # 0 => ~last'.connected \/ last'.sent # "full"]_vars

\* C25 witness: the message was sent in full, the poll timed out, and the
\* set returned 0.
C25_Witness ==
  /\ last.op = "set"
  /\ last.version = kProtocolVersion1
  /\ last.sent = "full"
  /\ last.reply = "timeout"
  /\ last.ret = 0


(***************************************************************************)
(* Claims about the serial word and the backup area (SpecRW)               *)
(***************************************************************************)
\* The first len + 1 bytes of a buffer
Prefix(buf, len) == [i \in 0 .. len |-> buf[i]]

\* C26: when an entry's serial becomes dirty, the backup area holds the
\* complete value the entry had before the update, with its NUL, of the
\* length in the dirty serial; and while an entry's serial is dirty no step
\* changes the backup area.
C26_BackupHeldWhileDirty ==
  [][\A e \in Entries :
       /\ (SERIAL_DIRTY(serial[e]) = 0 /\ SERIAL_DIRTY(serial'[e]) = 1)
            => /\ CStr(value[e]) \in hist[e]
               /\ Len(CStr(value[e])) = SERIAL_VALUE_LEN(serial'[e])
               /\ Prefix(dirty_backup', SERIAL_VALUE_LEN(serial'[e]))
                    = Prefix(BufOf(CStr(value[e])), SERIAL_VALUE_LEN(serial'[e]))
       /\ SERIAL_DIRTY(serial[e]) = 1 => dirty_backup' = dirty_backup]_vars

\* C26 witness: the second update of the run is under way on e1: its serial
\* is dirty, the first byte of its value is overwritten, and the backup area,
\* used before for e2, holds aa.
C26_Witness ==
  /\ gserial = 1
  /\ SERIAL_DIRTY(serial["e1"]) = 1
  /\ wpc = "copy"
  /\ wi = 1
  /\ value["e1"][0] # 97
  /\ CStr(dirty_backup) = <<97, 97>>

\* The sequence number of a serial: bits 23..1
SerialSequence(s) == (s % Pow2(24)) \div 2

\* The sequence numbers the entries have reached when the run starts: 0, 1,
\* and the last two before the wrap.
StartSequences == {0, 1, Pow2(23) - 2, Pow2(23) - 1}

InitSerial ==
  /\ RouteIdle
  /\ SplitIdle
  /\ OpenIdle
  /\ SetIdle
  /\ TrieIdle
  /\ AreaIdle
  /\ serial \in [Entries -> {InitialSerial(Len(AddedValue[e])) + 2 * q :
                              e \in Entries, q \in StartSequences}]
  /\ \A e \in Entries : SERIAL_VALUE_LEN(serial[e]) = Len(AddedValue[e])
  /\ value = [e \in Entries |-> BufOf(AddedValue[e])]
  /\ hist = [e \in Entries |-> {AddedValue[e]}]
  /\ estate = [e \in Entries |-> "live"]
  /\ dirty_backup = BufOf(<<>>)
  /\ gserial = 0
  /\ WriterIdle
  /\ ReaderIdle
  /\ NoWaiters

NextSerial ==
  \/ \E pi \in Entries, v \in Values : Update_LoadSerial(pi, v)
  \/ Update_BackupByte
  \/ Update_StoreDirty
  \/ Update_CopyByte
  \/ Update_StoreClean
  \/ Update_WakeEntry
  \/ StoreGlobalSerial
  \/ WakeGlobalSerial

SpecSerial == InitSerial /\ [][NextSerial]_vars

\* C27: an update stores into the entry's serial twice: first the old serial
\* with the dirty bit added, length and sequence number as they were; last a
\* serial with the length of v, the dirty bit clear and the sequence number
\* one more than before, modulo 2^23.
C27_SerialStoresOfUpdate ==
  [][\A e \in Entries :
       serial'[e] # serial[e]
         => IF SERIAL_DIRTY(serial[e]) = 0
              THEN /\ SERIAL_DIRTY(serial'[e]) = 1
                   /\ SERIAL_VALUE_LEN(serial'[e]) = SERIAL_VALUE_LEN(serial[e])
                   /\ SerialSequence(serial'[e]) = SerialSequence(serial[e])
              ELSE /\ SERIAL_DIRTY(serial'[e]) = 0
                   /\ SERIAL_VALUE_LEN(serial'[e]) = Len(wvalue)
                   /\ SerialSequence(serial'[e])
                        = (SerialSequence(serial[e]) + 1) % Pow2(23)]_vars

\* C27 witness: an update of an entry whose sequence number was 2^23 - 1 has
\* stored its final serial: the sequence number is 0 and the length is that
\* of the new value, one byte shorter than the old.
C27_Witness ==
  /\ wpc = "wake"
  /\ SerialSequence(wserial) = Pow2(23) - 1
  /\ SerialSequence(serial[wpi]) = 0
  /\ SERIAL_DIRTY(serial[wpi]) = 0
  /\ SERIAL_VALUE_LEN(wserial) = 2
  /\ SERIAL_VALUE_LEN(serial[wpi]) = 1

\* The entry stored under name in the areas as (name is stored)
EntryOf(as, name) == as[AreaOf(name)].info[find(as[AreaOf(name)], name)]

\* The names with the read-only prefix that are stored before and after a step
ReadOnlyKept(before, after) == {name \in before \cap after : is_read_only(name)}

\* C28: between its add and its delete no writer operation changes the value
\* or the serial of an entry whose name begins with "ro.".
C28_ReadOnlyWrittenOnce ==
  [][\A name \in ReadOnlyKept(stored, stored') :
       /\ EntryOf(areas', name).value = EntryOf(areas, name).value
       /\ EntryOf(areas', name).serial = EntryOf(areas, name).serial]_vars

\* C28 witness: update was called on the entry of ro.a, returned 0, and the
\* entry holds the new value and a serial with the sequence advanced.
C28_Witness ==
  /\ last.op = "update"
  /\ last.ret = 0
  /\ is_read_only(last.name)
  /\ last.name \in stored
  /\ EntryOf(areas, last.name).value = last.value
  /\ SerialSequence(EntryOf(areas, last.name).serial) = 1

(***************************************************************************)
(* prop_area::add in the writer beside prop_area::find in a reader thread, *)
(* one access to the shared area per step.  areas[0] is the memory as the  *)
(* reader sees it.  The writer's plain stores (the constructors' memcpy    *)
(* and field stores) wait in pending and reach the memory one by one in    *)
(* any order; a store with memory_order_release reaches it after all of    *)
(* them.  The reader's loads of a link are consume loads, so what it reads *)
(* through a link is no older than the link.                               *)
(***************************************************************************)
MaxAdds == 2

PubNames == {<<97>>, <<98>>, <<97, 97>>, <<97, DOT, 98>>, RO_DOT \o <<97>>}
PubValues(name) == IF is_read_only(name) THEN {<<120>>, LongValue} ELSE {<<120>>}

\* The names stored before the run, in the order they were added
PubInitial == {<<>>, <<<<98>>>>, <<<<98>>, RO_DOT \o <<97>>>>}

RECURSIVE Populated(_)
Populated(names) ==
  IF names = <<>> THEN NewArea
  ELSE add(Populated(SubSeq(names, 1, Len(names) - 1)), names[Len(names)], <<120>>).pa

\* One plain store into the area: <<object kind, offset, field>> :> bytes
Store(obj, off, field, val) == <<obj, off, field>> :> val

\* The area after the store at w of the stores ws has reached it
Apply(pa, ws, w) ==
  IF w[1] = "bt" THEN [pa EXCEPT !.bt[w[2]][w[3]] = ws[w]]
  ELSE IF w[1] = "info" THEN [pa EXCEPT !.info[w[2]][w[3]] = ws[w]]
  ELSE [pa EXCEPT !.blob[w[2]] = ws[w]]

Without(ws, w) == [x \in DOMAIN ws \ {w} |-> ws[x]]

RECURSIVE ApplyAll(_, _)
ApplyAll(pa, ws) ==
  IF DOMAIN ws = {} THEN pa
  ELSE LET w == CHOOSE x \in DOMAIN ws : TRUE IN ApplyAll(Apply(pa, ws, w), Without(ws, w))

\* The area as the writer sees it: its own stores included
View == ApplyAll(areas[0], pending)

\* The segment traverse_trie looks for: remaining_name up to the first '.'
Segment(remaining_name) ==
  LET sized(sep) == Take(remaining_name, IF sep # NoPos THEN sep ELSE Len(remaining_name))
  IN  sized(Strchr(remaining_name, DOT))

\* cmp_prop_name on a node whose name and namelen are read from the area
cmp_prop_node(one, node) ==
  IF Len(one) < node.namelen THEN -1
  ELSE IF Len(one) > node.namelen THEN 1
  ELSE Strncmp(one, node.name, Len(one))

AdderIdle ==
  [pc |-> "idle", name |-> <<>>, value |-> <<>>, current |-> 0, remaining |-> <<>>,
   bt |-> 0, node |-> 0, link |-> "none", off |-> 0, blob |-> 0, ret |-> TRUE, count |-> 0]

FinderIdle ==
  [pc |-> "idle", name |-> <<>>, current |-> 0, remaining |-> <<>>, bt |-> 0, ret |-> 0,
   got |-> ZeroInfo, long_value |-> <<>>, torn |-> FALSE, was |-> 0, during |-> FALSE]

InitPublish ==
  /\ \E names \in PubInitial :
       /\ areas = [c \in AreaIds |-> IF c = 0 THEN Populated(names) ELSE NewArea]
       /\ stored = {names[i] : i \in 1 .. Len(names)}
       /\ added = [n \in {names[i] : i \in 1 .. Len(names)} |->
                     [value |-> <<120>>, fresh |-> TRUE]]
  /\ adder = AdderIdle
  /\ finder = FinderIdle
  /\ pending = <<>>
  /\ pa_ = <<>>
  /\ no_access_ = <<>>
  /\ readable = <<>>
  /\ initialized_ = <<>>
  /\ rw_ = <<>>
  /\ writable = <<>>
  /\ serial_access = "none"
  /\ denied = <<>>
  /\ exhausted = {}
  /\ last = [op |-> "none"]
  /\ RouteIdle
  /\ SplitIdle
  /\ OpenIdle
  /\ SetIdle
  /\ serial = [e \in Entries |-> 0]
  /\ value = [e \in Entries |-> BufOf(<<>>)]
  /\ hist = [e \in Entries |-> {}]
  /\ estate = [e \in Entries |-> "free"]
  /\ dirty_backup = BufOf(<<>>)
  /\ gserial = 0
  /\ WriterIdle
  /\ ReaderIdle
  /\ NoWaiters

PublishFrame ==
  UNCHANGED <<pa_, no_access_, readable, initialized_, rw_, writable, serial_access, denied,
              exhausted, last, protoVars, writerVars, readerVars, waiterVars, routeVars,
              splitVars, openVars, setVars>>

\* prop_area::add(name, namelen, value, valuelen) is called for a new name
AddCall(name, val) ==
  /\ adder.pc = "idle"
  /\ adder.count < MaxAdds
  /\ name \notin stored
  /\ adder' = [AdderIdle EXCEPT !.pc = "children", !.name = name, !.value = val,
                                !.remaining = name, !.count = adder.count + 1]
  /\ added' = (name :> [value |-> val, fresh |-> TRUE]) @@ added
  /\ UNCHANGED <<areas, stored, finder, pending>>
  /\ PublishFrame

\* The writer has the node found for a segment: traverse_trie goes on with
\* the next segment, or returns the node to find_property.
AdderAt(found) ==
  LET next(sep) ==
        IF sep = NoPos THEN [adder EXCEPT !.pc = "prop", !.current = found]
        ELSE [adder EXCEPT !.pc = "children", !.current = found,
                           !.remaining = Skip(adder.remaining, sep + 1)]
  IN  next(Strchr(adder.remaining, DOT))

\* allocate_obj for a node of the segment, to be linked at link of node;
\* the memory handed out is zero.
AdderAllocatesBt(node, link) ==
  LET got(r) ==
        IF ~r.ok
          THEN /\ adder' = [adder EXCEPT !.pc = "return", !.ret = FALSE]
               /\ UNCHANGED areas
          ELSE /\ adder' = [adder EXCEPT !.pc = "construct", !.node = node, !.link = link,
                                         !.off = r.off]
               /\ areas' = [areas EXCEPT ![0] = [r.pa EXCEPT !.bt = (r.off :> ZeroBt) @@ @]]
  IN  got(allocate_obj(areas[0], SizeofPropBt + Len(Segment(adder.remaining)) + 1))

\* traverse_trie, alloc_if_needed: the load of current->children
AddChildren ==
  /\ adder.pc = "children"
  /\ IF Len(Segment(adder.remaining)) = 0
       THEN /\ adder' = [adder EXCEPT !.pc = "return", !.ret = FALSE]
            /\ UNCHANGED areas
     ELSE IF View.bt[adder.current].children # 0
       THEN /\ adder' = [adder EXCEPT !.pc = "cmp", !.bt = View.bt[adder.current].children]
            /\ UNCHANGED areas
       ELSE AdderAllocatesBt(adder.current, "children")
  /\ UNCHANGED <<stored, added, finder, pending>>
  /\ PublishFrame

\* find_prop_bt, alloc_if_needed: one turn of the loop
AddCompare ==
  LET descend(link) ==
        IF View.bt[adder.bt][link] # 0
          THEN /\ adder' = [adder EXCEPT !.bt = View.bt[adder.bt][link]]
               /\ UNCHANGED areas
          ELSE AdderAllocatesBt(adder.bt, link)
      compared(ret) ==
        IF ret = 0 THEN adder' = AdderAt(adder.bt) /\ UNCHANGED areas
        ELSE IF ret < 0 THEN descend("left")
        ELSE descend("right")
  IN  /\ adder.pc = "cmp"
      /\ compared(cmp_prop_node(Segment(adder.remaining), View.bt[adder.bt]))
      /\ UNCHANGED <<stored, added, finder, pending>>
      /\ PublishFrame

\* new (p) prop_bt(name, namelen): plain stores
AddConstruct ==
  /\ adder.pc = "construct"
  /\ pending' = Store("bt", adder.off, "namelen", Len(Segment(adder.remaining)))
                 @@ Store("bt", adder.off, "name", Segment(adder.remaining))
                 @@ pending
  /\ adder' = [adder EXCEPT !.pc = "publish"]
  /\ UNCHANGED <<areas, stored, added, finder>>
  /\ PublishFrame

\* find_property, alloc_if_needed: the load of current->prop and, for a new
\* name, the allocations of new_prop_info
AddProp ==
  LET long(r, l) ==
        IF ~l.ok
          THEN /\ adder' = [adder EXCEPT !.pc = "return", !.ret = FALSE]
               /\ areas' = [areas EXCEPT ![0] = l.pa]
          ELSE /\ adder' = [adder EXCEPT !.pc = "construct_info", !.node = adder.current,
                                         !.link = "prop", !.off = r.off, !.blob = l.off]
               /\ areas' = [areas EXCEPT ![0] =
                              [l.pa EXCEPT !.info = (r.off :> ZeroInfo) @@ @,
                                           !.blob = (l.off :> <<>>) @@ @]]
      got(r) ==
        IF ~r.ok
          THEN /\ adder' = [adder EXCEPT !.pc = "return", !.ret = FALSE]
               /\ UNCHANGED areas
        ELSE IF Len(adder.value) >= PROP_VALUE_MAX
          THEN long(r, allocate_obj(r.pa, Len(adder.value) + 1))
          ELSE /\ adder' = [adder EXCEPT !.pc = "construct_info", !.node = adder.current,
                                         !.link = "prop", !.off = r.off]
               /\ areas' = [areas EXCEPT ![0] = [r.pa EXCEPT !.info = (r.off :> ZeroInfo) @@ @]]
  IN  /\ adder.pc = "prop"
      /\ IF View.bt[adder.current].prop # 0
           THEN /\ adder' = [adder EXCEPT !.pc = "return", !.ret = TRUE]
                /\ UNCHANGED areas
           ELSE got(allocate_obj(areas[0], SizeofPropInfo + Len(adder.name) + 1))
      /\ UNCHANGED <<stored, added, finder, pending>>
      /\ PublishFrame

\* The stores of the prop_info constructors, and of the memcpy of a long value
InfoStores(off, info) ==
  [w \in {<<"info", off, f>> : f \in {f \in DOMAIN info : info[f] # ZeroInfo[f]}}
     |-> info[w[3]]]

AddConstructInfo ==
  /\ adder.pc = "construct_info"
  /\ pending' =
       (IF Len(adder.value) >= PROP_VALUE_MAX
          THEN Store("blob", adder.blob, "bytes", adder.value)
               @@ InfoStores(adder.off, LongInfo(adder.name, adder.blob - adder.off))
          ELSE InfoStores(adder.off, ShortInfo(adder.name, adder.value)))
       @@ pending
  /\ adder' = [adder EXCEPT !.pc = "publish"]
  /\ UNCHANGED <<areas, stored, added, finder>>
  /\ PublishFrame

\* Where the writer goes on after it has linked the new object
AdderLinked ==
  IF adder.link = "prop" THEN [adder EXCEPT !.pc = "return", !.ret = TRUE]
  ELSE IF adder.link = "children" THEN [adder EXCEPT !.pc = "cmp", !.bt = adder.off]
  ELSE AdderAt(adder.off)

\* Faulty variant: the link is stored with memory_order_relaxed; it can
\* reach the memory before the stores that built the object.
AddPublish_Relaxed ==
  /\ adder.pc = "publish"
  /\ areas' = [areas EXCEPT ![0].bt[adder.node][adder.link] = adder.off]
  /\ adder' = AdderLinked
  /\ UNCHANGED <<stored, added, finder, pending>>
  /\ PublishFrame

\* atomic_store_explicit(&current->left / right / children / prop,
\* new_offset, memory_order_release)
AddPublish ==
  /\ adder.pc = "publish"
  /\ areas' = [areas EXCEPT ![0] =
                 [ApplyAll(areas[0], pending) EXCEPT !.bt[adder.node][adder.link] = adder.off]]
  /\ pending' = <<>>
  /\ adder' = AdderLinked
  /\ UNCHANGED <<stored, added, finder>>
  /\ PublishFrame

\* prop_area::add returns
AddReturn ==
  /\ adder.pc = "return"
  /\ stored' = IF adder.ret THEN stored \cup {adder.name} ELSE stored
  /\ adder' = [adder EXCEPT !.pc = "idle"]
  /\ UNCHANGED <<areas, added, finder, pending>>
  /\ PublishFrame

\* One of the writer's plain stores reaches the memory
Flush ==
  /\ \E w \in DOMAIN pending :
       /\ areas' = [areas EXCEPT ![0] = Apply(areas[0], pending, w)]
       /\ pending' = Without(pending, w)
  /\ UNCHANGED <<stored, added, adder, finder>>
  /\ PublishFrame

\* prop_area::find(name) is called in the reader
FindCall(name) ==
  /\ finder.pc \in {"idle", "done"}
  /\ finder' = [FinderIdle EXCEPT !.pc = "children", !.name = name, !.remaining = name,
                                 !.was = IF name \in stored THEN find(areas[0], name) ELSE 0,
                                 !.during = adder.pc # "idle"]
  /\ UNCHANGED <<areas, stored, added, adder, pending>>
  /\ PublishFrame

\* traverse_trie without allocation: the load of current->children
FindChildren ==
  /\ finder.pc = "children"
  /\ finder' =
       IF Len(Segment(finder.remaining)) = 0 \/ areas[0].bt[finder.current].children = 0
         THEN [finder EXCEPT !.pc = "done", !.ret = 0]
         ELSE [finder EXCEPT !.pc = "cmp", !.bt = areas[0].bt[finder.current].children]
  /\ UNCHANGED <<areas, stored, added, adder, pending>>
  /\ PublishFrame

\* The node is as the constructor leaves it
Constructed(node) == node.namelen > 0 /\ Len(node.name) = node.namelen

\* find_prop_bt without allocation: one turn of the loop; torn records that
\* the node compared with was not constructed yet.
FindCompare ==
  LET node == areas[0].bt[finder.bt]
      seen == [finder EXCEPT !.torn = @ \/ ~Constructed(node)]
      descend(link) ==
        IF node[link] # 0 THEN [seen EXCEPT !.bt = node[link]]
        ELSE [seen EXCEPT !.pc = "done", !.ret = 0]
      found(sep) ==
        IF sep = NoPos THEN [seen EXCEPT !.pc = "prop", !.current = finder.bt]
        ELSE [seen EXCEPT !.pc = "children", !.current = finder.bt,
                          !.remaining = Skip(finder.remaining, sep + 1)]
      compared(ret) ==
        IF ret = 0 THEN found(Strchr(finder.remaining, DOT))
        ELSE IF ret < 0 THEN descend("left")
        ELSE descend("right")
  IN  /\ finder.pc = "cmp"
      /\ finder' = compared(cmp_prop_node(Segment(finder.remaining), node))
      /\ UNCHANGED <<areas, stored, added, adder, pending>>
      /\ PublishFrame

\* find_property without allocation: the load of current->prop; got is the
\* entry behind the pointer returned, as the memory holds it at the return.
FindProp ==
  LET prop == areas[0].bt[finder.current].prop
      info == areas[0].info[prop]
  IN  /\ finder.pc = "prop"
      /\ finder' =
           IF prop = 0 THEN [finder EXCEPT !.pc = "done", !.ret = 0]
           ELSE [finder EXCEPT !.pc = "done", !.ret = prop, !.got = info,
                               !.long_value =
                                  IF prop + info.long_offset \in DOMAIN areas[0].blob
                                    THEN areas[0].blob[prop + info.long_offset] ELSE <<>>]
      /\ UNCHANGED <<areas, stored, added, adder, pending>>
      /\ PublishFrame

NextPublish ==
  \/ \E name \in PubNames : \E val \in PubValues(name) : AddCall(name, val)
  \/ AddChildren
  \/ AddCompare
  \/ AddConstruct
  \/ AddProp
  \/ AddConstructInfo
  \/ AddPublish
  \/ AddReturn
  \/ Flush
  \/ \E name \in PubNames : FindCall(name)
  \/ FindChildren
  \/ FindCompare
  \/ FindProp

SpecPublish == InitPublish /\ [][NextPublish]_vars

\* What a find that has returned gave: nothing, or an entry of its name with
\* the value of the name's add; never a node or entry still being built; and
\* for a name stored before the call the entry it had then.
FindReturned ==
  /\ ~finder.torn
  /\ finder.pc = "done" =>
       /\ finder.was # 0 => finder.ret = finder.was
       /\ finder.ret # 0 =>
            /\ finder.name \in DOMAIN added
            /\ finder.got.name = finder.name
            /\ IF is_long(finder.got)
                 THEN finder.long_value = added[finder.name].value
                 ELSE finder.got.value = added[finder.name].value

\* The find has returned an entry of a name that was added
FoundAdded == finder.pc = "done" /\ finder.ret # 0 /\ finder.name \in DOMAIN added

\* The serial carries the length of v
CarriesLength(info, v) == SERIAL_VALUE_LEN(info.serial) = Len(v)

\* The serial is the one of the constructor for v: the length of v, or for a
\* long value the length of the legacy error string and the long flag
ConstructedSerial(info, v) ==
  info.serial = IF Len(v) >= PROP_VALUE_MAX
                  THEN Len(kLongLegacyError) * Pow2(24) + kLongFlag
                  ELSE InitialSerial(Len(v))

\* C29 (as stated): a find beside an add returns nothing or the constructed
\* entry of the name, with value v and a serial carrying the length of v;
\* finds of names stored before return the entries they had.
C29_FindSeesWholeEntry ==
  /\ FindReturned
  /\ FoundAdded => CarriesLength(finder.got, added[finder.name].value)

\* C29 (amended): the same, the serial of a long value carrying the length
\* of the legacy error string and the long flag, with v behind the offset.
C29_FindSeesConstructedEntry ==
  /\ FindReturned
  /\ FoundAdded => ConstructedSerial(finder.got, added[finder.name].value)

\* C29 witness: a find called while the add of its name was under way has
\* returned the new entry before the add returned.
C29_Witness ==
  /\ adder.pc = "return"
  /\ finder.pc = "done"
  /\ finder.during
  /\ finder.name = adder.name
  /\ finder.ret = adder.off
  /\ finder.ret # 0
  /\ Strchr(finder.name, DOT) # NoPos

(***************************************************************************)
(* prop_area::add and prop_area::remove on one area, with names of several *)
(* lengths under one parent, so that the per-segment trees grow links on   *)
(* both sides and lose leaves to prune_trie.                               *)
(***************************************************************************)
\* Cap on the bytes handed out by allocate_obj before an add is started
MaxTreeBytes == 500

\* b, a, c, aa, b.a, b.c
TreeNames == {<<98>>, <<97>>, <<99>>, <<97, 97>>, <<98, DOT, 97>>, <<98, DOT, 99>>}

InitTree ==
  /\ areas = [c \in AreaIds |-> NewArea]
  /\ stored = {}
  /\ added = <<>>
  /\ last = [op |-> "none"]
  /\ pa_ = <<>>
  /\ no_access_ = <<>>
  /\ readable = <<>>
  /\ initialized_ = <<>>
  /\ rw_ = <<>>
  /\ writable = <<>>
  /\ serial_access = "none"
  /\ denied = <<>>
  /\ exhausted = {}
  /\ RouteIdle
  /\ SplitIdle
  /\ OpenIdle
  /\ SetIdle
  /\ TrieIdle
  /\ serial = [e \in Entries |-> 0]
  /\ value = [e \in Entries |-> BufOf(<<>>)]
  /\ hist = [e \in Entries |-> {}]
  /\ estate = [e \in Entries |-> "free"]
  /\ dirty_backup = BufOf(<<>>)
  /\ gserial = 0
  /\ WriterIdle
  /\ ReaderIdle
  /\ NoWaiters

TreeFrame ==
  UNCHANGED <<pa_, no_access_, readable, initialized_, rw_, writable, serial_access, added,
              denied, exhausted, protoVars, writerVars, readerVars, waiterVars, routeVars,
              splitVars, openVars, setVars, trieVars>>

\* prop_area::add(name, namelen, value, valuelen)
TreeAdd(name, val) ==
  LET done(r) ==
        /\ areas' = [areas EXCEPT ![0] = r.pa]
        /\ stored' = IF r.ret THEN stored \cup {name} ELSE stored
        /\ last' = [op |-> "add", name |-> name, prune |-> FALSE, ret |-> r.ret]
  IN  /\ areas[0].bytes_used_ < MaxTreeBytes
      /\ done(add(areas[0], name, val))
      /\ TreeFrame

\* prop_area::remove(name, prune)
TreeRemove(name, prune) ==
  LET done(r) ==
        /\ areas' = [areas EXCEPT ![0] = r.pa]
        /\ stored' = IF r.ret THEN stored \ {name} ELSE stored
        /\ last' = [op |-> "remove", name |-> name, prune |-> prune, ret |-> r.ret]
  IN  /\ done(remove(areas[0], name, prune))
      /\ TreeFrame

NextTree ==
  \/ \E name \in TreeNames : TreeAdd(name, <<120>>)
  \/ \E name \in TreeNames, prune \in BOOLEAN : TreeRemove(name, prune)

SpecTree == InitTree /\ [][NextTree]_vars

\* The order of the segments: length ascending, then bytes ascending
SegmentLess(s, t) ==
  \/ Len(s) < Len(t)
  \/ /\ Len(s) = Len(t)
     /\ \E i \in 1 .. Len(s) : s[i] < t[i] /\ \A j \in 1 .. i - 1 : s[j] = t[j]

\* The nodes of the tree below the node at off: those reached from it
\* through left and right links
RECURSIVE TreeBelow(_, _)
TreeBelow(pa, off) ==
  IF off = 0 THEN {}
  ELSE {off} \cup TreeBelow(pa, pa.bt[off].left) \cup TreeBelow(pa, pa.bt[off].right)

\* The nodes reached from the root of the trie
RECURSIVE TrieBelow(_, _)
TrieBelow(pa, off) ==
  IF off = 0 THEN {}
  ELSE UNION {{n} \cup TrieBelow(pa, pa.bt[n].children) : n \in TreeBelow(pa, off)}

\* C30: in every state reached by add and remove, with or without prune,
\* every per-segment tree is a binary search tree in the order (length,
\* bytes): what hangs on a node's left link is smaller, what hangs on its
\* right link is larger, and no segment is held twice in a tree.
C30_TreesAreSearchTrees ==
  LET pa == areas[0]
      trees == {pa.bt[n].children : n \in {0} \cup TrieBelow(pa, pa.bt[0].children)} \ {0}
  IN  /\ \A n \in TrieBelow(pa, pa.bt[0].children) :
           /\ \A m \in TreeBelow(pa, pa.bt[n].left) : SegmentLess(pa.bt[m].name, pa.bt[n].name)
           /\ \A m \in TreeBelow(pa, pa.bt[n].right) : SegmentLess(pa.bt[n].name, pa.bt[m].name)
      /\ \A t \in trees : \A m1, m2 \in TreeBelow(pa, t) :
           pa.bt[m1].name = pa.bt[m2].name => m1 = m2

\* C30 witness: a remove with prune has wiped the leaf of "aa" out of a tree
\* of four nodes, which keeps a node with a left and a right link.
C30_Witness ==
  /\ last = [op |-> "remove", name |-> <<97, 97>>, prune |-> TRUE, ret |-> TRUE]
  /\ \E n \in DOMAIN areas[0].bt \ {0} :
       /\ areas[0].bt[n].left # 0
       /\ areas[0].bt[n].right # 0
  /\ \E n \in DOMAIN areas[0].bt \ {0} : areas[0].bt[n] = ZeroBt

(***************************************************************************)
(* The reader/writer protocol with the reader scheduled fairly.  Nothing   *)
(* is asked of the writer: it may stop for good at any step, also between  *)
(* the store of the dirty serial and the store of the clean one.           *)
(***************************************************************************)
ReaderFairness ==
  /\ WF_vars(Read_CopyByte)
  /\ WF_vars(Read_Recheck)
  /\ WF_vars(Read_Return)

SpecRead == InitRW /\ [][NextRW]_vars /\ ReaderFairness

\* C31: a read whose copy no store into the entry's serial has overlapped
\* leaves the loop at its first recheck, and every read that has loaded the
\* serial leaves the loop once the writer has stopped, wherever it stopped.
C31_ReadTerminates ==
  /\ [][(rpc = "recheck" /\ serial[rpi] = rserial) => rpc' # "copy"]_vars
  /\ (rpc = "copy") ~> (rpc = "done")

\* C31 witness: the writer stands between its two stores of the serial, and
\* a read of that entry has returned with the dirty serial.
C31_Witness ==
  /\ wpc = "copy"
  /\ rpc = "done"
  /\ rpi = wpi
  /\ SERIAL_DIRTY(rserial) = 1
  /\ rserial = serial[rpi]

\* The labels of the lines of the file that InitializePropertiesFromFile keeps
KeptLabels ==
  {split_file[i].context : i \in {i \in 1 .. Len(split_file) : Configured(i)}}

FreshlyAdded(name) == name \in DOMAIN added /\ added[name].fresh

\* C33: read_with_callback on a read-only name added with a long value v
\* hands the callback v itself, in place; on a name that is not read-only
\* it hands the callback the local copy made by the serial-recheck read,
\* with the serial that read returned.
C33_CallbackValue ==
  last.op = "read_callback" =>
    /\ (is_read_only(last.name) /\ FreshlyAdded(last.name)
          /\ Len(added[last.name].value) >= PROP_VALUE_MAX)
         => /\ last.value = added[last.name].value
            /\ last.from = "long_value"
    /\ ~is_read_only(last.name)
         => /\ last.from = "value_buf"
            /\ last.value = ReadValue(EntryOf(areas, last.name)).value
            /\ last.serial = EntryOf(areas, last.name).serial
            /\ FreshlyAdded(last.name) => last.value = added[last.name].value

\* C33 witness: the callback was handed the 92 bytes added under ro.a
C33_Witness ==
  /\ last.op = "read_callback"
  /\ last.name = RO_DOT \o <<97>>
  /\ FreshlyAdded(last.name)
  /\ last.value = LongValue
  /\ last.from = "long_value"

\* The last call was a get that found a long-form entry
GotLongEntry ==
  /\ last.op = "get"
  /\ last.found
  /\ last.name \in stored
  /\ is_long(EntryOf(areas, last.name))

\* C34: get (find and read) on a long-form entry returns the legacy error
\* string and its length, not the long value and not its length.
C34_LongReadsLegacyError ==
  GotLongEntry => /\ last.value = kLongLegacyError
                  /\ last.ret = Len(kLongLegacyError)

\* The same for a long-form entry as add left it
FreshLongReadsLegacyError ==
  (GotLongEntry /\ FreshlyAdded(last.name)) => /\ last.value = kLongLegacyError
                                               /\ last.ret = Len(kLongLegacyError)

\* C34 witness: get on the long-form entry of ro.a returned the two bytes an
\* update had written over the legacy error string, and their length.
C34_Witness ==
  /\ GotLongEntry
  /\ last.value = <<121, 121>>
  /\ last.ret = 2
  /\ EntryOf(areas, last.name).name = RO_DOT \o <<97>>

(***************************************************************************)
(* SystemProperties::Add beside a thread in SystemProperties::Wait on the  *)
(* global serial: the add with its serial store and its wake taken as one  *)
(* step.                                                                   *)
(***************************************************************************)
\* a, a.b and ro.a
WakeNames == {<<97>>, <<97, DOT, 98>>, RO_DOT \o <<97>>}
WakeValues == {<<120>>, <<121, 121>>, LongValue}

\* Faulty variant: nobody is woken.
Add_Wake_None == UNCHANGED qpc

\* __futex_wake(serial_pa->serial(), INT32_MAX); return 0
Add_Wake == FutexWake("global")

\* SystemProperties::Add, with the threads asleep on the global serial
Add_Waited(p, name, val) ==
  /\ Add_Call(p, name, val)
  /\ IF last'.ret = 0 THEN Add_Wake ELSE UNCHANGED qpc
  /\ UNCHANGED <<readable, writable, serial_access, estate, serial, value, dirty_backup,
                 hist, writerVars, readerVars, qpi, qold, qnew, qtimed, routeVars,
                 splitVars, openVars, setVars, trieVars>>

NextWake ==
  \/ \E name \in WakeNames, val \in WakeValues : Add_Waited("init", name, val)
  \/ \E w \in Waiters : Wait_Call(w, "global", FALSE)
  \/ \E w \in Waiters : Wait_FutexWait(w)
  \/ \E w \in Waiters : Wait_LoadSerial(w)
  \/ \E w \in Waiters : Wait_Return(w)

SpecWake == InitArea /\ [][NextWake]_vars

\* The value may be added under the name: it is shorter than PROP_VALUE_MAX
\* or the name begins with "ro.".
AddAccepts(name, val) == Len(val) < PROP_VALUE_MAX \/ is_read_only(name)

WornNames == {<<97>>, <<97, DOT, 98>>}

\* The numbers of updates the entry of a has had when the run starts
WornUpdates == {0, 1, Pow2(15) - 2, Pow2(15) - 1}

\* The serial after n updates that keep the length: the sequence number
\* advanced n times modulo 2^23, the dirty bit clear.
CleanSerialAfter(s, n) ==
  SERIAL_VALUE_LEN(s) * Pow2(24) + ((SerialLow24(s) + 2 * n) % Pow2(24))

\* The area after add(a, "x") and n calls of Update on the entry, each with a
\* value of one byte: every call adds 2 to the low 24 bits of the serial.
WornArea(n) ==
  LET worn(pa, pi) ==
        [pa EXCEPT !.info[pi].serial = CleanSerialAfter(@, n),
                   !.dirty_backup_area = IF n = 0 THEN @ ELSE <<120>>]
      added_to(pa) == worn(pa, find(pa, <<97>>))
  IN  added_to(add(NewArea, <<97>>, <<120>>).pa)

InitWorn ==
  /\ \E n \in WornUpdates :
       areas = [c \in AreaIds |-> IF c = 0 THEN WornArea(n) ELSE NewArea]
  /\ pa_ = [p \in Procs |-> [c \in AreaIds |-> p = "init"]]
  /\ no_access_ = [p \in Procs |-> [c \in AreaIds |-> FALSE]]
  /\ denied = [p \in Procs |-> [c \in AreaIds |-> FALSE]]
  /\ readable = [c \in AreaIds |-> TRUE]
  /\ initialized_ = [p \in Procs |-> TRUE]
  /\ rw_ = [p \in Procs |-> IF p = "init" THEN AreaInitRw ELSE FALSE]
  /\ writable = [c \in AreaIds |-> FALSE]
  /\ serial_access = "ro"
  /\ stored = {<<97>>}
  /\ added = <<>>
  /\ exhausted = {}
  /\ last = [op |-> "none"]
  /\ info_area = AreaIndex
  /\ route_cfg = <<>>
  /\ route_name = <<>>
  /\ route_result = [done |-> FALSE, index |-> NoIndex]
  /\ serial = [e \in Entries |-> 0]
  /\ value = [e \in Entries |-> BufOf(<<>>)]
  /\ hist = [e \in Entries |-> {}]
  /\ estate = [e \in Entries |-> "free"]
  /\ dirty_backup = BufOf(<<>>)
  /\ gserial = 0
  /\ WriterIdle
  /\ ReaderIdle
  /\ NoWaiters
  /\ SplitIdle
  /\ OpenIdle
  /\ SetIdle
  /\ TrieIdle

NextWorn ==
  \/ \E name \in WornNames : Add("init", name, <<120>>)
  \/ \E name \in WornNames : Update("init", name, <<121, 121>>)
  \/ \E name \in WornNames, prune \in BOOLEAN : Delete("init", name, prune)
  \/ \E p \in Procs, name \in WornNames : Get(p, name)

SpecWorn == InitWorn /\ [][NextWorn]_vars

\* C36: an entry created in short form is not classified as long form,
\* however many times it has been updated: is_long(), which Read,
\* ReadCallback and remove ask, is false of every stored entry (all of them
\* created in short form here).
C36_ShortNeverLong ==
  \A name \in stored : ~is_long(EntryOf(areas, name))

\* C36 witness: an update of a short entry returned 0, the sequence number
\* advanced, and the entry is not classified as long form.
C36_Witness ==
  /\ last.op = "update"
  /\ last.ret = 0
  /\ SerialSequence(EntryOf(areas, last.name).serial) = Pow2(15) - 1
  /\ ~is_long(EntryOf(areas, last.name))

(***************************************************************************)
(* The global serial and the effect of the operation it is stored for.     *)
(* The store is a release store and the readers load the word with         *)
(* acquire, so what is in the memory when the store is made is what a      *)
(* reader that loaded the new serial finds.                                *)
(***************************************************************************)
\* Entry pi holds the complete value v under a clean serial of v's length.
HoldsClean(pi, v) ==
  /\ estate[pi] = "live"
  /\ SERIAL_DIRTY(serial[pi]) = 0
  /\ SERIAL_VALUE_LEN(serial[pi]) = Len(v)
  /\ value[pi] = BufOf(v)

\* C37: when the global serial is stored for an add, an update or a delete,
\* the effect of the operation is in the memory: the writer reaches the store
\* with the added entry live and holding its value, with the updated entry
\* holding the new value under a clean serial, or with the deleted entry
\* wiped; the entries stay so until the store; and the global serial is
\* stored at no other point.
C37_EffectBeforeGlobalSerial ==
  [][/\ \A pi \in Entries :
          (Add_Area(pi, <<98, 98>>) /\ estate[pi] = "free") => HoldsClean(pi, <<98, 98>>)'
     /\ \A pi \in Entries :
          Delete_Area(pi) => (estate'[pi] = "dead" /\ serial'[pi] = 0)
     /\ (wpc = "wake" /\ wpc' = "gserial") => HoldsClean(wpi, wvalue)'
     /\ wpc = "gserial" => UNCHANGED <<estate, serial, value>>
     /\ gserial' # gserial
          => /\ wpc = "gserial"
             /\ gserial' = gserial + 1
             /\ estate[wpi] = "dead" \/ \E v \in hist[wpi] : HoldsClean(wpi, v)]_vars

\* C37 witness: a thread that waited on the global serial has returned with
\* the serial stored for an update of e1, and e1 holds the new value under a
\* serial with the sequence number advanced.
C37_Witness ==
  \E w \in Waiters :
    /\ qpc[w] = "returned"
    /\ qpi[w] = "global"
    /\ qnew[w] = gserial
    /\ qnew[w] = qold[w] + 1
    /\ wpi = "e1"
    /\ HoldsClean("e1", <<99>>)
    /\ SerialSequence(serial["e1"]) = 1

(***************************************************************************)
(* prop_area::remove with prune in the writer beside prop_area::find in a  *)
(* reader thread, one access to the shared area per step.  adder is the    *)
(* writer's position in remove and prune_trie, the recursion of prune_trie *)
(* held as a stack of its activations.  The memsets are plain stores: they *)
(* wait in pending until a release store (set_offset) or Flush takes them  *)
(* to the memory.                                                          *)
(***************************************************************************)
\* a.b, a.c, b and a
PruneNames == {<<97, DOT, 98>>, <<97, DOT, 99>>, <<98>>, <<97>>}

\* The names stored before the run, in the order they were added
PruneInitial ==
  {<<<<97, DOT, 98>>, <<97, DOT, 99>>, <<98>>>>,
   <<<<98>>, <<97, DOT, 99>>, <<97, DOT, 98>>, <<97>>>>,
   <<<<97, DOT, 98>>>>}

RemoverIdle ==
  [pc |-> "idle", name |-> <<>>, node |-> 0, prop |-> 0, stack |-> <<>>, ret |-> FALSE,
   count |-> 0]

InitPrune ==
  /\ \E names \in PruneInitial :
       /\ areas = [c \in AreaIds |-> IF c = 0 THEN Populated(names) ELSE NewArea]
       /\ stored = {names[i] : i \in 1 .. Len(names)}
       /\ added = [n \in {names[i] : i \in 1 .. Len(names)} |->
                     [value |-> <<120>>, fresh |-> TRUE]]
  /\ adder = RemoverIdle
  /\ finder = FinderIdle
  /\ pending = <<>>
  /\ pa_ = <<>>
  /\ no_access_ = <<>>
  /\ readable = <<>>
  /\ initialized_ = <<>>
  /\ rw_ = <<>>
  /\ writable = <<>>
  /\ serial_access = "none"
  /\ denied = <<>>
  /\ exhausted = {}
  /\ last = [op |-> "none"]
  /\ RouteIdle
  /\ SplitIdle
  /\ OpenIdle
  /\ SetIdle
  /\ serial = [e \in Entries |-> 0]
  /\ value = [e \in Entries |-> BufOf(<<>>)]
  /\ hist = [e \in Entries |-> {}]
  /\ estate = [e \in Entries |-> "free"]
  /\ dirty_backup = BufOf(<<>>)
  /\ gserial = 0
  /\ WriterIdle
  /\ ReaderIdle
  /\ NoWaiters

\* prop_area::remove(name, true): traverse_trie to the node of the name and
\* the load of its prop offset
RemoveCall(name) ==
  LET held(node, prop_offset) ==
        IF prop_offset = 0
          THEN [RemoverIdle EXCEPT !.pc = "return", !.name = name, !.count = adder.count + 1]
          ELSE [RemoverIdle EXCEPT !.pc = "detach", !.name = name, !.node = node,
                                   !.prop = prop_offset, !.count = adder.count + 1]
      reached(node) == held(node, IF node = 0 THEN 0 ELSE View.bt[node].prop)
  IN  /\ adder.pc = "idle"
      /\ adder.count < MaxAdds
      /\ adder' = reached(traverse_trie(View, 0, name, FALSE).off)
      /\ UNCHANGED <<areas, stored, added, finder, pending>>
      /\ PublishFrame

\* set_offset(&node->prop, 0u): a release store
RemoveDetach ==
  /\ adder.pc = "detach"
  /\ areas' = [areas EXCEPT ![0] = [View EXCEPT !.bt[adder.node].prop = 0]]
  /\ pending' = <<>>
  /\ stored' = stored \ {adder.name}
  /\ adder' = [adder EXCEPT !.pc = "wipe"]
  /\ UNCHANGED <<added, finder>>
  /\ PublishFrame

\* The stores of a memset over an object: the fields that are not zero yet
WipeStores(obj, off, held, zero) ==
  [w \in {<<obj, off, f>> : f \in {f \in DOMAIN held : held[f] # zero[f]}} |-> zero[w[3]]]

\* memset(prop->name, 0, strlen(prop->name)); memset(prop, 0, sizeof(*prop));
\* then prune_trie(root_node())
RemoveWipe ==
  /\ adder.pc = "wipe"
  /\ pending' = WipeStores("info", adder.prop, View.info[adder.prop], ZeroInfo) @@ pending
  /\ adder' = [adder EXCEPT !.pc = "prune",
                            !.stack = <<[node |-> 0, stage |-> "children", leaf |-> TRUE]>>]
  /\ UNCHANGED <<areas, stored, added, finder>>
  /\ PublishFrame

\* The links of a node in the order prune_trie goes through them
NextStage(stage) ==
  IF stage = "children" THEN "left" ELSE IF stage = "left" THEN "right" ELSE "wipe"

\* The stack with its top activation changed to top
WithTop(stack, top) == [stack EXCEPT ![Len(stack)] = top]

\* if (get_offset(&node->children / left / right) != 0) prune_trie(...)
PruneLoad ==
  LET top == adder.stack[Len(adder.stack)]
      loaded(link) ==
        IF link # 0
          THEN Append(adder.stack, [node |-> link, stage |-> "children", leaf |-> TRUE])
          ELSE WithTop(adder.stack, [top EXCEPT !.stage = NextStage(@)])
  IN  /\ adder.pc = "prune"
      /\ top.stage \in {"children", "left", "right"}
      /\ adder' = [adder EXCEPT !.stack = loaded(View.bt[top.node][top.stage])]
      /\ UNCHANGED <<areas, stored, added, finder, pending>>
      /\ PublishFrame

\* Faulty variant: a node without property is wiped whatever lies below it.
PruneWipes_NoProp(leaf, node) == node.prop = 0

\* if (is_leaf && get_offset(&node->prop) == 0)
PruneWipes(leaf, node) == leaf /\ node.prop = 0

\* The stack after the top activation returned ret to its caller: the caller
\* goes on to clear its link, or notes that it is no leaf.
Returned(stack, ret) ==
  LET rest == SubSeq(stack, 1, Len(stack) - 1)
      caller(top) ==
        IF ret THEN [top EXCEPT !.stage = "clear_" \o @]
        ELSE [top EXCEPT !.stage = NextStage(@), !.leaf = FALSE]
  IN  IF rest = <<>> THEN rest ELSE WithTop(rest, caller(rest[Len(rest)]))

\* memset(node->name, 0, node->namelen); memset(node, 0, sizeof(*node));
\* return true; or return false
PruneWipe ==
  LET top == adder.stack[Len(adder.stack)]
      done(stack) == [adder EXCEPT !.stack = stack,
                                   !.pc = IF stack = <<>> THEN "return" ELSE "prune",
                                   !.ret = TRUE]
  IN  /\ adder.pc = "prune"
      /\ top.stage = "wipe"
      /\ IF PruneWipes(top.leaf, View.bt[top.node])
           THEN /\ pending' = WipeStores("bt", top.node, View.bt[top.node], ZeroBt) @@ pending
                /\ adder' = done(Returned(adder.stack, TRUE))
           ELSE /\ pending' = pending
                /\ adder' = done(Returned(adder.stack, FALSE))
      /\ UNCHANGED <<areas, stored, added, finder>>
      /\ PublishFrame

\* The link an activation is about to clear
ClearedLink(stage) ==
  IF stage = "clear_children" THEN "children"
  ELSE IF stage = "clear_left" THEN "left" ELSE "right"

\* set_offset(&node->children / left / right, 0u): a release store
PruneClear ==
  LET top == adder.stack[Len(adder.stack)] IN
  /\ adder.pc = "prune"
  /\ top.stage \in {"clear_children", "clear_left", "clear_right"}
  /\ areas' = [areas EXCEPT ![0] = [View EXCEPT !.bt[top.node][ClearedLink(top.stage)] = 0]]
  /\ pending' = <<>>
  /\ adder' = [adder EXCEPT !.stack =
                 WithTop(adder.stack, [top EXCEPT !.stage = NextStage(ClearedLink(@))])]
  /\ UNCHANGED <<stored, added, finder>>
  /\ PublishFrame

\* prop_area::remove returns
RemoveReturn ==
  /\ adder.pc = "return"
  /\ adder' = [adder EXCEPT !.pc = "idle"]
  /\ UNCHANGED <<areas, stored, added, finder, pending>>
  /\ PublishFrame

NextPrune ==
  \/ \E name \in PruneNames : RemoveCall(name)
  \/ RemoveDetach
  \/ RemoveWipe
  \/ PruneLoad
  \/ PruneWipe
  \/ PruneClear
  \/ RemoveReturn
  \/ Flush
  \/ \E name \in PruneNames : FindCall(name)
  \/ FindChildren
  \/ FindCompare
  \/ FindProp

SpecPrune == InitPrune /\ [][NextPrune]_vars

\* C38: beside a remove with prune, at every step of it, each stored name
\* other than the one removed is found in the memory as it is, and a find
\* that returns for such a name returns its entry, with its name and value.
C38_PruneKeepsOthersFound ==
  /\ \A name \in stored :
       /\ find(areas[0], name) # 0
       /\ areas[0].info[find(areas[0], name)].name = name
  /\ (finder.pc = "done" /\ finder.name \in stored)
       => /\ finder.ret # 0
          /\ finder.ret = finder.was
          /\ finder.got.name = finder.name
          /\ finder.got.value = added[finder.name].value

\* C38 witness: a find of a.c called while the removal of a.b was pruning
\* has returned the entry of a.c, and the writer is still in prune_trie
\* with stores of a wiped node under way.
C38_Witness ==
  /\ finder.pc = "done"
  /\ finder.during
  /\ finder.name = <<97, DOT, 99>>
  /\ finder.ret # 0
  /\ adder.pc = "prune"
  /\ adder.name = <<97, DOT, 98>>
  /\ \E w \in DOMAIN pending : w[1] = "bt"

(***************************************************************************)
(* SystemProperties::Read on a handle beside prop_area::remove of its      *)
(* entry.  remove wipes the entry with memset over the whole prop_info:   *)
(* plain stores over the serial word and the value bytes, outside the      *)
(* dirty-bit protocol, taken here one word or byte at a time in any order. *)
(***************************************************************************)
\* The serial word among the parts of an entry that memset has to wipe
\* (the value bytes are numbered as in BufIdx)
SerialWord == -1

\* pa->remove(name, prune) up to set_offset(&node->prop, 0u): the entry is
\* found no more; its bytes are still to be wiped.
Delete_Detach(pi) ==
  /\ wpc = "idle"
  /\ gserial < MaxOps
  /\ estate[pi] = "live"
  /\ estate' = [estate EXCEPT ![pi] = "dead"]
  /\ wpc' = "wipe"
  /\ wpi' = pi
  /\ wi' = {SerialWord} \cup BufIdx
  /\ UNCHANGED <<storeVars, serial, value, dirty_backup, gserial, hist, wvalue, wserial,
                 readerVars, waiterVars>>

\* memset(prop, 0, sizeof(*prop)), one of the parts not wiped yet
Delete_WipePart ==
  /\ wpc = "wipe"
  /\ \E part \in wi :
       /\ serial' = IF part = SerialWord THEN [serial EXCEPT ![wpi] = 0] ELSE serial
       /\ value' = IF part = SerialWord THEN value ELSE [value EXCEPT ![wpi][part] = 0]
       /\ IF wi = {part}
            THEN wpc' = "gserial" /\ wi' = 0
            ELSE wpc' = wpc /\ wi' = wi \ {part}
  /\ UNCHANGED <<storeVars, estate, dirty_backup, gserial, hist, wpi, wvalue, wserial,
                 readerVars, waiterVars>>

\* Read on a handle obtained before the entry was removed
Read_LoadSerial_Held(pi) ==
  /\ rpc = "idle"
  /\ estate[pi] = "dead"
  /\ rpi' = pi
  /\ rserial' = serial[pi]
  /\ rnew' = serial[pi]
  /\ rbuf' = JunkBuf
  /\ ri' = 0
  /\ rpc' = "copy"
  /\ UNCHANGED <<storeVars, protoVars, writerVars, waiterVars, rprev>>

NextStale ==
  \/ \E pi \in Entries, v \in Values : Update_LoadSerial(pi, v)
  \/ Update_BackupByte
  \/ Update_StoreDirty
  \/ Update_CopyByte
  \/ Update_StoreClean
  \/ Update_WakeEntry
  \/ \E pi \in Entries : Delete_Detach(pi)
  \/ Delete_WipePart
  \/ StoreGlobalSerial
  \/ WakeGlobalSerial
  \/ \E pi \in Entries : Read_LoadSerial(pi)
  \/ \E pi \in Entries : Read_LoadSerial_Held(pi)
  \/ Read_CopyByte
  \/ Read_Recheck
  \/ Read_Return

SpecStale == InitRW /\ [][NextStale]_vars

\* C39: a read on a handle, also one whose entry is being or has been
\* removed, returns a complete value that was stored under the name with its
\* length, or the empty value with length 0: the caller's buffer holds a NUL
\* where the value ends.
C39_StaleReadReturnsWholeValue ==
  rpc = "done" =>
    \/ /\ CStr(rbuf) \in hist[rpi]
       /\ Len(CStr(rbuf)) = SERIAL_VALUE_LEN(rserial)
    \/ /\ rbuf[0] = 0
       /\ SERIAL_VALUE_LEN(rserial) = 0

\* C39 witness: a read called on the handle of e1 after the removal had
\* begun has returned: the value is empty and the length is 0.
C39_Witness ==
  /\ rpc = "done"
  /\ rpi = "e1"
  /\ estate["e1"] = "dead"
  /\ rserial = 0
  /\ rbuf[0] = 0

(***************************************************************************)
(* The adds that fail: on a name with an empty segment, for want of room,  *)
(* on a name that routes to no area, with a value too long.  The areas     *)
(* start with little room left, as in SpecArena; the index routes the      *)
(* names under ro. to area 1 or to a context that does not exist.          *)
(***************************************************************************)
\* ro.a, a.bc, ab.c, abcd and a..b
FailNames == ArenaNames \cup {<<97, DOT, DOT, 98>>}

\* Bytes left in the data region: one node; abcd with its entry and two
\* more nodes
FailRooms == {24, 200}

InitFail ==
  /\ \E room \in FailRooms :
       areas = [c \in AreaIds |-> [NewArea EXCEPT !.bytes_used_ = pa_data_size_ - room]]
  /\ info_area \in {AreaIndex, BeyondIndex}
  /\ pa_ = [p \in Procs |-> [c \in AreaIds |-> p = "init"]]
  /\ no_access_ = [p \in Procs |-> [c \in AreaIds |-> FALSE]]
  /\ denied = [p \in Procs |-> [c \in AreaIds |-> FALSE]]
  /\ readable = AllAreas
  /\ initialized_ = [p \in Procs |-> TRUE]
  /\ rw_ = [p \in Procs |-> IF p = "init" THEN AreaInitRw ELSE FALSE]
  /\ writable = NoAreas
  /\ serial_access = "ro"
  /\ stored = {}
  /\ added = <<>>
  /\ exhausted = {}
  /\ last = [op |-> "none"]
  /\ route_cfg = <<>>
  /\ route_name = <<>>
  /\ route_result = [done |-> FALSE, index |-> NoIndex]
  /\ serial = [e \in Entries |-> 0]
  /\ value = [e \in Entries |-> BufOf(<<>>)]
  /\ hist = [e \in Entries |-> {}]
  /\ estate = [e \in Entries |-> "free"]
  /\ dirty_backup = BufOf(<<>>)
  /\ gserial = 0
  /\ WriterIdle
  /\ ReaderIdle
  /\ NoWaiters
  /\ SplitIdle
  /\ OpenIdle
  /\ SetIdle
  /\ TrieIdle

NextFail ==
  \/ \E name \in FailNames, val \in ArenaValues : Add("init", name, val)
  \/ \E name \in FailNames : Delete("init", name, TRUE)

SpecFail == InitFail /\ [][NextFail]_vars

\* C40: an add that returns -1 leaves find and get of every name, the
\* entries foreach visits in every process, and the global serial as they
\* were, whatever it allocated and linked before it failed.
C40_FailedAddChangesNothingSeen ==
  [][(last'.op = "add" /\ last'.ret = -1)
       => /\ \A n \in FailNames : Lookup(areas', n) = Lookup(areas, n)
          /\ \A p \in Procs : ForEach(p)' = ForEach(p)
          /\ gserial' = gserial
          /\ stored' = stored]_vars

\* C40 witness: with abcd stored, the add of a..b has failed at its empty
\* segment after it had allocated and linked the node a; abcd is read with
\* its value and the global serial is the one of the single add.
C40_Witness ==
  /\ last.op = "add"
  /\ last.ret = -1
  /\ last.name = <<97, DOT, DOT, 98>>
  /\ stored = {<<97, 98, 99, 100>>}
  /\ gserial = 1
  /\ \E off \in DOMAIN areas[0].bt :
       /\ areas[0].bt[off].name = <<97>>
       /\ areas[0].bt[off].prop = 0
  /\ Lookup(areas, <<97, 98, 99, 100>>).value = <<120>>
  /\ Len(ForEach("init")) = 1

=============================================================================
